---- MODULE Spec2Model ----
(***************************************************************************)
(* A model of the elf-lang interpreter (lexer.py, parser.py, evaluator.py).*)
(* The program text is parsed by evaluate_program, then its statements are *)
(* evaluated one by one by Evaluator.evaluate_program under the global     *)
(* Environment.  Python list objects (the .items of ElfList, ElfSet and    *)
(* ElfDictionary) live in a heap, `lists`, and Environment objects in a    *)
(* heap, `envs`, so that aliasing of mutable Python objects is visible.    *)
(***************************************************************************)
EXTENDS Integers, Sequences, FiniteSets, TLC

VARIABLES
    source,         \* the program text, as a sequence of statement chunks
    ast,            \* Program["statements"] once parsed
    pc,             \* index of the next statement of the loop of evaluate_program
    stage,          \* "start", "eval" or "returned"
    lists,          \* heap of Python list objects: ref -> sequence
    envs,           \* heap of Environment objects: id -> [parent, variables, mutable]
    output_buffer,  \* Evaluator.output_buffer
    last_result,    \* last_result of Evaluator.evaluate_program
    raised,         \* message of the exception that ended the run, "" if none
    returned,       \* the text evaluate_program returned
    calls           \* the earlier calls of evaluate_program: [source, returned]

vars == <<source, ast, pc, stage, lists, envs, output_buffer, last_result, raised, returned,
          calls>>

(***************************************************************************)
(* Bounds of the model.                                                    *)
(***************************************************************************)
MaxStmts == 3

(***************************************************************************)
(* Values: one record shape per Elf* class, tagged by `kind`.              *)
(***************************************************************************)
ElfInteger(n) == [kind |-> "Integer", value |-> n]
\* ElfDecimal holds a decimal.Decimal: the number coefficient / 10 ^ places,
\* which keeps the places it was written with (1.50 is 150 with 2 places).
ElfDecimal(coefficient, places) ==
    [kind |-> "Decimal", coefficient |-> coefficient, places |-> places]
ElfString(s) == [kind |-> "String", str |-> s]
ElfBoolean(b) == [kind |-> "Boolean", bool |-> b]
ElfNil == [kind |-> "Nil"]
ElfList(ref) == [kind |-> "List", items |-> ref]
ElfSet(ref) == [kind |-> "Set", items |-> ref]
ElfDictionary(ref) == [kind |-> "Dictionary", items |-> ref]
ElfFunction(parameters, body, closure_env) ==
    [kind |-> "Function", parameters |-> parameters, body |-> body, closure_env |-> closure_env]
ElfBuiltinFunction(name, func, arity, partial_args) ==
    [kind |-> "BuiltinFunction", name |-> name, func |-> func, arity |-> arity,
     partial_args |-> partial_args]

\* A closure_env is an Environment object (by reference) or a plain dict of
\* bound arguments (call_user_function, partial application).
EnvRef(id) == [tag |-> "Environment", id |-> id]
DictClosure(d) == [tag |-> "dict", vars |-> d]

IsCollection(v) == v.kind \in {"List", "Set", "Dictionary"}
IsCallable(v) == v.kind \in {"Function", "BuiltinFunction"}

\* type(x).__name__[3:] and type(x).__name__.replace('Elf', '')
TypeName(v) == v.kind

(***************************************************************************)
(* The interpreter state threaded through evaluation, and results.         *)
(***************************************************************************)
St(l, e, o) == [lists |-> l, envs |-> e, out |-> o]
Ok(st, val) == [st |-> st, val |-> val, err |-> ""]
Raise(st, msg) == [st |-> st, val |-> ElfNil, err |-> msg]

\* A new Python list object holding `items`; yields the state and the ref.
NewList(st, items) == [st EXCEPT !.lists = Append(@, items)]
NewRef(st) == Len(st.lists) + 1

(***************************************************************************)
(* Environment: define / get / assign on the heap of Environment objects.  *)
(* parent = 0 stands for None.                                             *)
(***************************************************************************)
Environment(parent) == [parent |-> parent, variables |-> << >>, mutable |-> << >>]

\* A define that gives a name already bound its new value and leaves its
\* mutability as it was.
Environment_define_keeping_flag(es, id, name, value, mutable) ==
    [es EXCEPT ![id].variables = (name :> value) @@ @,
               ![id].mutable = IF name \in DOMAIN @ THEN @ ELSE (name :> mutable) @@ @]

Environment_define(es, id, name, value, mutable) ==
    [es EXCEPT ![id].variables = (name :> value) @@ @,
               ![id].mutable = (name :> mutable) @@ @]

RECURSIVE Environment_get(_, _, _)
Environment_get(es, id, name) ==
    IF name \in DOMAIN es[id].variables
    THEN [err |-> "", val |-> es[id].variables[name]]
    ELSE IF es[id].parent # 0
    THEN Environment_get(es, es[id].parent, name)
    ELSE [err |-> "Identifier can not be found: " \o name, val |-> ElfNil]

RECURSIVE Environment_assign(_, _, _, _)
Environment_assign(es, id, name, value) ==
    IF name \in DOMAIN es[id].variables
    THEN IF ~es[id].mutable[name]
         THEN [err |-> "Variable '" \o name \o "' is not mutable", envs |-> es]
         ELSE [err |-> "", envs |-> [es EXCEPT ![id].variables[name] = value]]
    ELSE IF es[id].parent # 0
    THEN Environment_assign(es, es[id].parent, name, value)
    ELSE [err |-> "Identifier can not be found: " \o name, envs |-> es]

(***************************************************************************)
(* Numbers.  An Integer is a Python int; a Decimal is a decimal.Decimal,   *)
(* and arithmetic on a Decimal goes through Python floats.                 *)
(***************************************************************************)
\* The coefficient of a number written with p places (p not below its own).
Scaled(v, p) ==
    IF v.kind = "Integer" THEN v.value * 10 ^ p
    ELSE v.coefficient * 10 ^ (p - v.places)
Places(v) == IF v.kind = "Integer" THEN 0 ELSE v.places
MorePlaces(a, b) == IF Places(a) > Places(b) THEN Places(a) ELSE Places(b)
\* Decimal == Decimal and Decimal < Decimal, by numeric value.
NumberEqual(a, b) == Scaled(a, MorePlaces(a, b)) = Scaled(b, MorePlaces(a, b))
NumberLess(a, b) == Scaled(a, MorePlaces(a, b)) < Scaled(b, MorePlaces(a, b))

\* Decimal(str(x)) of a float x = coefficient / 10 ^ places: str(float)
\* writes no trailing zero but always one place (3.0, 2.75).
RECURSIVE OfFloat(_, _)
OfFloat(coefficient, places) ==
    IF places = 0 THEN ElfDecimal(coefficient * 10, 1)
    ELSE IF places > 1 /\ coefficient % 10 = 0 THEN OfFloat(coefficient \div 10, places - 1)
    ELSE ElfDecimal(coefficient, places)

(***************************************************************************)
(* Structural equality, Evaluator.values_equal.  L is the heap of lists.   *)
(***************************************************************************)
RECURSIVE values_equal(_, _, _)
values_equal(left, right, L) ==
    IF left.kind # right.kind THEN FALSE
    ELSE CASE left.kind = "Integer" -> left.value = right.value
           [] left.kind = "Decimal" -> NumberEqual(left, right)
           [] left.kind = "String" -> left.str = right.str
           [] left.kind = "Boolean" -> left.bool = right.bool
           [] left.kind = "Nil" -> TRUE
           [] left.kind = "List" ->
                LET a == L[left.items]
                    b == L[right.items]
                IN  /\ Len(a) = Len(b)
                    /\ \A i \in 1..Len(a) : values_equal(a[i], b[i], L)
           [] left.kind = "Set" ->
                LET a == L[left.items]
                    b == L[right.items]
                IN  /\ Len(a) = Len(b)
                    /\ \A i \in 1..Len(a) : \E j \in 1..Len(b) : values_equal(a[i], b[j], L)
           [] left.kind = "Dictionary" ->
                LET a == L[left.items]
                    b == L[right.items]
                IN  /\ Len(a) = Len(b)
                    /\ \A i \in 1..Len(a) : \E j \in 1..Len(b) :
                          /\ values_equal(a[i][1], b[j][1], L)
                          /\ values_equal(a[i][2], b[j][2], L)
           [] OTHER -> FALSE

\* Evaluator.is_truthy (the second definition, which is the one in force).
is_truthy(value, L) ==
    CASE value.kind = "Boolean" -> value.bool
      [] value.kind = "Nil" -> FALSE
      [] value.kind = "Integer" -> value.value # 0
      [] value.kind = "Decimal" -> value.coefficient # 0
      [] value.kind = "String" -> value.str # << >>
      [] IsCollection(value) -> Len(L[value.items]) > 0
      [] OTHER -> TRUE

(***************************************************************************)
(* Printed forms: __repr__ of the Elf* classes, as sequences of characters.*)
(***************************************************************************)
Digits == <<"0", "1", "2", "3", "4", "5", "6", "7", "8", "9">>

RECURSIVE NatChars(_)
NatChars(n) == IF n < 10 THEN <<Digits[n + 1]>>
               ELSE Append(NatChars(n \div 10), Digits[(n % 10) + 1])

\* str(int)
IntChars(n) == IF n < 0 THEN <<"-">> \o NatChars(-n) ELSE NatChars(n)

RECURSIVE JoinChars(_)
JoinChars(cs) == IF cs = << >> THEN "" ELSE Head(cs) \o JoinChars(Tail(cs))

\* sep.join(parts), on sequences of characters.
RECURSIVE JoinWith(_, _)
JoinWith(sep, parts) ==
    IF parts = << >> THEN << >>
    ELSE IF Len(parts) = 1 THEN parts[1]
    ELSE parts[1] \o sep \o JoinWith(sep, Tail(parts))

\* ElfString.__repr__: backslash, newline and tab are escaped, quotes are not.
RECURSIVE EscapeChars(_)
EscapeChars(cs) ==
    IF cs = << >> THEN << >>
    ELSE (CASE Head(cs) = "\\" -> <<"\\", "\\">>
            [] Head(cs) = "\n" -> <<"\\", "n">>
            [] Head(cs) = "\t" -> <<"\\", "t">>
            [] OTHER -> <<Head(cs)>>) \o EscapeChars(Tail(cs))

\* _sort_key of ElfSet and ElfDictionary: (rank, value).
SortRank(v) ==
    CASE v.kind = "Integer" -> 0
      [] v.kind = "Decimal" -> 1
      [] v.kind = "String" -> 2
      [] v.kind = "Boolean" -> 3
      [] v.kind = "Nil" -> 4
      [] OTHER -> 5

\* Printable ASCII characters in code-point order.
Alphabet ==
    <<" ", "!", "\"", "#", "$", "%", "&", "'", "(", ")", "*", "+", ",", "-", ".", "/",
      "0", "1", "2", "3", "4", "5", "6", "7", "8", "9", ":", ";", "<", "=", ">", "?",
      "@", "A", "B", "C", "D", "E", "F", "G", "H", "I", "J", "K", "L", "M", "N", "O",
      "P", "Q", "R", "S", "T", "U", "V", "W", "X", "Y", "Z", "[", "\\", "]", "^", "_",
      "a", "b", "c", "d", "e", "f", "g", "h", "i", "j", "k", "l", "m", "n", "o",
      "p", "q", "r", "s", "t", "u", "v", "w", "x", "y", "z", "{", "|", "}", "~">>

\* The place of c in code-point order (ord(c) up to a monotone renumbering).
CodePoint(c) == CHOOSE i \in 1..Len(Alphabet) : Alphabet[i] = c

\* Python's str < str: lexicographic by code point.
RECURSIVE StrLess(_, _)
StrLess(a, b) ==
    IF b = << >> THEN FALSE
    ELSE IF a = << >> THEN TRUE
    ELSE IF Head(a) # Head(b) THEN CodePoint(Head(a)) < CodePoint(Head(b))
    ELSE StrLess(Tail(a), Tail(b))

\* The value _sort_key is applied to: the item of a set, the key of a pair.
SortKeyOf(x, pairs) == IF pairs THEN x[1] ELSE x

RECURSIVE ReprChars(_, _)

\* key(a) < key(b) on the tuples (rank, payload) of _sort_key; rank 5 compares
\* str(value).
SortKeyLess(a, b, L) ==
    IF SortRank(a) # SortRank(b) THEN SortRank(a) < SortRank(b)
    ELSE CASE a.kind = "Integer" -> a.value < b.value
           [] a.kind = "Decimal" -> NumberLess(a, b)
           [] a.kind = "String" -> StrLess(a.str, b.str)
           [] a.kind = "Boolean" -> (~a.bool) /\ b.bool
           [] a.kind = "Nil" -> FALSE
           [] OTHER -> StrLess(ReprChars(a, L), ReprChars(b, L))

\* sorted(items, key=...): Python's sort is stable, so an item goes before the
\* first later item whose key is not smaller than its own.
RECURSIVE InsertSorted(_, _, _, _)
InsertSorted(x, sorted, pairs, L) ==
    IF sorted = << >> THEN <<x>>
    ELSE IF ~SortKeyLess(SortKeyOf(Head(sorted), pairs), SortKeyOf(x, pairs), L)
         THEN <<x>> \o sorted
         ELSE <<Head(sorted)>> \o InsertSorted(x, Tail(sorted), pairs, L)

RECURSIVE SortedBy(_, _, _)
SortedBy(items, pairs, L) ==
    IF items = << >> THEN << >>
    ELSE InsertSorted(Head(items), SortedBy(Tail(items), pairs, L), pairs, L)

\* str(n) with zeros in front, up to `width` digits.
RECURSIVE Padded(_, _)
Padded(n, width) ==
    IF width <= 0 THEN << >>
    ELSE Append(Padded(n \div 10, width - 1), Digits[(n % 10) + 1])

\* str(value) of a decimal.Decimal: all its places.
DecimalChars(v) ==
    LET magnitude == IF v.coefficient < 0 THEN -v.coefficient ELSE v.coefficient
    IN  (IF v.coefficient < 0 THEN <<"-">> ELSE << >>)
        \o NatChars(magnitude \div 10 ^ v.places)
        \o (IF v.places = 0 THEN << >>
            ELSE <<".">> \o Padded(magnitude % 10 ^ v.places, v.places))

\* s.rstrip('0')
RECURSIVE StripZeros(_)
StripZeros(cs) ==
    IF cs # << >> /\ cs[Len(cs)] = "0" THEN StripZeros(SubSeq(cs, 1, Len(cs) - 1)) ELSE cs

\* ElfDecimal.__repr__: a whole number as str(int(value)), otherwise
\* str(value) without trailing zeros.
DecimalRepr(v) ==
    IF v.coefficient % 10 ^ v.places = 0
    THEN IF v.coefficient < 0
         THEN IntChars(-((-v.coefficient) \div 10 ^ v.places))
         ELSE IntChars(v.coefficient \div 10 ^ v.places)
    ELSE StripZeros(DecimalChars(v))

\* ', '.join(parameters)
CommaSep == <<",", " ">>

\* The characters of a parameter name; the parameter names of the model's
\* programs are one character long.
NameChars(name) == <<name>>

\* str(value): __repr__ of each Elf* class.  L is the heap of lists.
ReprChars(v, L) ==
    CASE v.kind = "Integer" -> IntChars(v.value)
      [] v.kind = "Decimal" -> DecimalRepr(v)
      [] v.kind = "String" -> <<"\"">> \o EscapeChars(v.str) \o <<"\"">>
      [] v.kind = "Boolean" -> IF v.bool THEN <<"t", "r", "u", "e">>
                                         ELSE <<"f", "a", "l", "s", "e">>
      [] v.kind = "Nil" -> <<"n", "i", "l">>
      [] v.kind = "List" ->
            <<"[">> \o JoinWith(CommaSep,
                [i \in 1..Len(L[v.items]) |-> ReprChars(L[v.items][i], L)]) \o <<"]">>
      [] v.kind = "Set" ->
            LET sorted_items == SortedBy(L[v.items], FALSE, L)
            IN  <<"{">> \o JoinWith(CommaSep,
                    [i \in 1..Len(sorted_items) |-> ReprChars(sorted_items[i], L)]) \o <<"}">>
      [] v.kind = "Dictionary" ->
            LET sorted_pairs == SortedBy(L[v.items], TRUE, L)
            IN  <<"#", "{">> \o JoinWith(CommaSep,
                    [i \in 1..Len(sorted_pairs) |->
                        ReprChars(sorted_pairs[i][1], L) \o <<":", " ">>
                            \o ReprChars(sorted_pairs[i][2], L)]) \o <<"}">>
      [] v.kind = "Function" ->
            <<"|">> \o JoinWith(CommaSep,
                [i \in 1..Len(v.parameters) |-> NameChars(v.parameters[i])])
                \o <<"|", " ", "{", " ", "[", "c", "l", "o", "s", "u", "r", "e", "]", " ", "}">>
      [] v.kind = "BuiltinFunction" ->
            IF v.partial_args # << >>
            THEN <<"<", "p", "a", "r", "t", "i", "a", "l", " ">> \o v.name \o <<"(">>
                    \o IntChars(Len(v.partial_args)) \o <<"/">> \o IntChars(v.arity)
                    \o <<")", ">">>
            ELSE <<"<", "b", "u", "i", "l", "t", "i", "n", " ">> \o v.name \o <<">">>

\* str(value) as one text.
Repr(v, L) == JoinChars(ReprChars(v, L))

(***************************************************************************)
(* Arithmetic and the + of collections: add_values .. compare_values.      *)
(* The Decimals of the model's programs are written as binary fractions    *)
(* (1.5, 0.25), on which float + - * are exact; a float quotient is kept   *)
(* to DecimalPlaces places.                                                *)
(***************************************************************************)
\* The loop of the Set + Set branch: append each item not already present.
RECURSIVE UnionItems(_, _, _)
UnionItems(result_items, items, L) ==
    IF items = << >> THEN result_items
    ELSE LET item == Head(items)
             found == \E i \in 1..Len(result_items) : values_equal(result_items[i], item, L)
         IN  UnionItems(IF found THEN result_items ELSE Append(result_items, item),
                        Tail(items), L)

\* The loop of the Dictionary + Dictionary branch: the first pair with an
\* equal key is overwritten, otherwise the pair is appended.
RECURSIVE MergePairs(_, _, _)
MergePairs(result_pairs, pairs, L) ==
    IF pairs = << >> THEN result_pairs
    ELSE LET right_key == Head(pairs)[1]
             hits == {i \in 1..Len(result_pairs) : values_equal(result_pairs[i][1], right_key, L)}
             first_hit == CHOOSE i \in hits : \A j \in hits : i <= j
         IN  MergePairs(IF hits # {} THEN [result_pairs EXCEPT ![first_hit] = Head(pairs)]
                                     ELSE Append(result_pairs, Head(pairs)),
                        Tail(pairs), L)

\* str(x.value) for numbers, str(x) otherwise: the text a String is joined with.
ConcatText(x, L) ==
    CASE x.kind = "Integer" -> IntChars(x.value)
      [] x.kind = "Decimal" -> DecimalChars(x)
      [] OTHER -> ReprChars(x, L)

IsNumber(v) == v.kind \in {"Integer", "Decimal"}

\* ElfDecimal(float(l) + float(r)), and the same for - and *.
FloatSum(l, r) ==
    OfFloat(Scaled(l, MorePlaces(l, r)) + Scaled(r, MorePlaces(l, r)), MorePlaces(l, r))
FloatDifference(l, r) ==
    OfFloat(Scaled(l, MorePlaces(l, r)) - Scaled(r, MorePlaces(l, r)), MorePlaces(l, r))
FloatProduct(l, r) ==
    OfFloat(Scaled(l, Places(l)) * Scaled(r, Places(r)), Places(l) + Places(r))

\* ElfDecimal(float(l) / float(r)) for r # 0: the quotient rounded to
\* DecimalPlaces places, a tie to the even digit.
DecimalPlaces == 3
FloatRatio(l, r) ==
    LET n == Scaled(l, MorePlaces(l, r)) * 10 ^ DecimalPlaces
        d == Scaled(r, MorePlaces(l, r))
        q == (IF n < 0 THEN -n ELSE n) \div (IF d < 0 THEN -d ELSE d)
        rest == (IF n < 0 THEN -n ELSE n) % (IF d < 0 THEN -d ELSE d)
        up == 2 * rest > (IF d < 0 THEN -d ELSE d)
              \/ (2 * rest = (IF d < 0 THEN -d ELSE d) /\ q % 2 = 1)
        magnitude == IF up THEN q + 1 ELSE q
    IN  OfFloat(IF (n < 0) = (d < 0) THEN magnitude ELSE -magnitude, DecimalPlaces)

add_values(left, right, st) ==
    LET L == st.lists IN
    CASE left.kind = "Integer" /\ right.kind = "Integer" ->
            Ok(st, ElfInteger(left.value + right.value))
      [] IsNumber(left) /\ IsNumber(right) -> Ok(st, FloatSum(left, right))
      [] left.kind = "String" /\ right.kind = "String" ->
            Ok(st, ElfString(left.str \o right.str))
      [] left.kind = "String" /\ right.kind # "String" ->
            Ok(st, ElfString(left.str \o ConcatText(right, L)))
      [] left.kind # "String" /\ right.kind = "String" ->
            Ok(st, ElfString(ConcatText(left, L) \o right.str))
      [] left.kind = "List" /\ right.kind = "List" ->
            Ok(NewList(st, L[left.items] \o L[right.items]), ElfList(NewRef(st)))
      [] left.kind = "Set" /\ right.kind = "Set" ->
            Ok(NewList(st, UnionItems(L[left.items], L[right.items], L)), ElfSet(NewRef(st)))
      [] left.kind = "Dictionary" /\ right.kind = "Dictionary" ->
            Ok(NewList(st, MergePairs(L[left.items], L[right.items], L)),
               ElfDictionary(NewRef(st)))
      [] OTHER ->
            Raise(st, "Unsupported operation: " \o TypeName(left) \o " + " \o TypeName(right))

subtract_values(left, right, st) ==
    IF left.kind = "Integer" /\ right.kind = "Integer"
    THEN Ok(st, ElfInteger(left.value - right.value))
    ELSE IF IsNumber(left) /\ IsNumber(right)
    THEN Ok(st, FloatDifference(left, right))
    ELSE Raise(st, "Unsupported operation: " \o TypeName(left) \o " - " \o TypeName(right))

RECURSIVE Repeat(_, _)
Repeat(cs, n) == IF n <= 0 THEN << >> ELSE cs \o Repeat(cs, n - 1)

multiply_values(left, right, st) ==
    CASE left.kind = "Integer" /\ right.kind = "Integer" ->
            Ok(st, ElfInteger(left.value * right.value))
      [] IsNumber(left) /\ IsNumber(right) -> Ok(st, FloatProduct(left, right))
      [] left.kind = "String" /\ right.kind = "Integer" ->
            IF right.value < 0
            THEN Raise(st, "Unsupported operation: String * Integer (< 0)")
            ELSE Ok(st, ElfString(Repeat(left.str, right.value)))
      [] OTHER ->
            Raise(st, "Unsupported operation: " \o TypeName(left) \o " * " \o TypeName(right))

Abs(n) == IF n < 0 THEN -n ELSE n

\* int(a / b) for a and b below 2 ^ 53, where the float a / b is near enough
\* to the exact quotient: the quotient truncated toward zero.  (FloatQuotient
\* is the same line of the code without that bound.)
TruncDiv(a, b) == IF (a < 0) = (b < 0) THEN Abs(a) \div Abs(b) ELSE -(Abs(a) \div Abs(b))

\* A division that gives Integer / Integer as a float, which the code does not.
divide_values_promoting(left, right, st) ==
    IF IsNumber(left) /\ IsNumber(right)
    THEN IF Scaled(right, Places(right)) = 0
         THEN Raise(st, "Division by zero")
         ELSE Ok(st, FloatRatio(left, right))
    ELSE Raise(st, "Unsupported operation: " \o TypeName(left) \o " / " \o TypeName(right))

divide_values(left, right, st) ==
    IF left.kind = "Integer" /\ right.kind = "Integer"
    THEN IF right.value = 0
         THEN Raise(st, "Division by zero")
         ELSE Ok(st, ElfInteger(TruncDiv(left.value, right.value)))
    ELSE IF IsNumber(left) /\ IsNumber(right)
    THEN IF Scaled(right, Places(right)) = 0
         THEN Raise(st, "Division by zero")
         ELSE Ok(st, FloatRatio(left, right))
    ELSE Raise(st, "Unsupported operation: " \o TypeName(left) \o " / " \o TypeName(right))

\* compare_values: -1, 0 or 1, or the error.
compare_values(left, right) ==
    CASE left.kind = "Integer" /\ right.kind = "Integer" ->
            [err |-> "", cmp |-> IF left.value > right.value THEN 1
                                 ELSE IF left.value < right.value THEN -1 ELSE 0]
      [] IsNumber(left) /\ IsNumber(right) ->
            [err |-> "", cmp |-> IF NumberLess(right, left) THEN 1
                                 ELSE IF NumberLess(left, right) THEN -1 ELSE 0]
      [] left.kind = "String" /\ right.kind = "String" ->
            [err |-> "", cmp |-> IF StrLess(right.str, left.str) THEN 1
                                 ELSE IF StrLess(left.str, right.str) THEN -1 ELSE 0]
      [] OTHER ->
            [err |-> "Cannot compare " \o TypeName(left) \o " with " \o TypeName(right),
             cmp |-> 0]

(***************************************************************************)
(* index_value.                                                            *)
(***************************************************************************)
\* items[idx] with Python's negative indices, nil when out of range; the
\* characters of a String come back as one-character strings.
ItemAt(items, index, chars) ==
    LET idx == IF index < 0 THEN Len(items) + index ELSE index
    IN  IF 0 <= idx /\ idx < Len(items)
        THEN IF chars THEN ElfString(<<items[idx + 1]>>) ELSE items[idx + 1]
        ELSE ElfNil

index_value(target, index, st) ==
    LET L == st.lists IN
    CASE target.kind = "String" ->
            IF index.kind # "Integer"
            THEN Raise(st, "Unable to perform index operation, found: String["
                            \o TypeName(index) \o "]")
            ELSE Ok(st, ItemAt(target.str, index.value, TRUE))
      [] target.kind = "List" ->
            IF index.kind # "Integer"
            THEN Raise(st, "Unable to perform index operation, found: List["
                            \o TypeName(index) \o "]")
            ELSE Ok(st, ItemAt(L[target.items], index.value, FALSE))
      [] target.kind = "Dictionary" ->
            LET pairs == L[target.items]
                hits == {i \in 1..Len(pairs) : values_equal(pairs[i][1], index, L)}
            IN  IF hits = {} THEN Ok(st, ElfNil)
                ELSE Ok(st, pairs[CHOOSE i \in hits : \A j \in hits : i <= j][2])
      [] OTHER -> Raise(st, "Cannot index into " \o TypeName(target))

(***************************************************************************)
(* The collection primitives: builtin_push .. builtin_size.                *)
(***************************************************************************)
\* A push that appends to the operand's own item list and hands the operand
\* back: the collection every alias of the operand sees grows.
builtin_push_in_place(item, collection, st) ==
    LET L == st.lists IN
    CASE collection.kind = "List" ->
            Ok([st EXCEPT !.lists[collection.items] = Append(@, item)], collection)
      [] collection.kind = "Set" ->
            LET new_items == L[collection.items]
                exists == \E i \in 1..Len(new_items) : values_equal(new_items[i], item, L)
            IN  Ok([st EXCEPT !.lists[collection.items] =
                                    IF exists THEN @ ELSE Append(@, item)],
                   collection)
      [] OTHER -> Raise(st, "Cannot push to " \o TypeName(collection))

builtin_push(item, collection, st) ==
    LET L == st.lists IN
    CASE collection.kind = "List" ->
            Ok(NewList(st, Append(L[collection.items], item)), ElfList(NewRef(st)))
      [] collection.kind = "Set" ->
            LET new_items == L[collection.items]
                exists == \E i \in 1..Len(new_items) : values_equal(new_items[i], item, L)
            IN  Ok(NewList(st, IF exists THEN new_items ELSE Append(new_items, item)),
                   ElfSet(NewRef(st)))
      [] OTHER -> Raise(st, "Cannot push to " \o TypeName(collection))

builtin_assoc(key, value, dictionary, st) ==
    LET L == st.lists IN
    IF dictionary.kind # "Dictionary"
    THEN Raise(st, "Cannot assoc to " \o TypeName(dictionary))
    ELSE LET pairs == L[dictionary.items]
             key_found == \E i \in 1..Len(pairs) : values_equal(pairs[i][1], key, L)
             updated == [i \in 1..Len(pairs) |->
                            IF values_equal(pairs[i][1], key, L) THEN <<key, value>>
                            ELSE pairs[i]]
             new_pairs == IF key_found THEN updated ELSE Append(updated, <<key, value>>)
         IN  Ok(NewList(st, new_pairs), ElfDictionary(NewRef(st)))

builtin_first(collection, st) ==
    LET L == st.lists IN
    CASE collection.kind \in {"List", "Set"} ->
            Ok(st, IF L[collection.items] # << >> THEN L[collection.items][1] ELSE ElfNil)
      [] collection.kind = "String" ->
            Ok(st, IF collection.str # << >> THEN ElfString(<<collection.str[1]>>) ELSE ElfNil)
      [] collection.kind = "Dictionary" ->
            Ok(st, IF L[collection.items] # << >> THEN L[collection.items][1][1] ELSE ElfNil)
      [] OTHER -> Ok(st, ElfNil)

\* items[1:]
Rest(items) == IF items = << >> THEN << >> ELSE Tail(items)

builtin_rest(collection, st) ==
    LET L == st.lists IN
    CASE IsCollection(collection) ->
            Ok(NewList(st, Rest(L[collection.items])),
               [kind |-> collection.kind, items |-> NewRef(st)])
      [] collection.kind = "String" -> Ok(st, ElfString(Rest(collection.str)))
      [] OTHER -> Ok(st, ElfNil)

\* len(value.encode('utf-8')); the characters of the model are ASCII.
Utf8Len(cs) == Len(cs)

builtin_size(collection, st) ==
    CASE IsCollection(collection) -> Ok(st, ElfInteger(Len(st.lists[collection.items])))
      [] collection.kind = "String" -> Ok(st, ElfInteger(Utf8Len(collection.str)))
      [] OTHER -> Ok(st, ElfNil)

RECURSIVE PutsLines(_, _)
\* The strings builtin_puts appends for its arguments: f"{arg} " each.
PutsLines(args, L) ==
    IF args = << >> THEN << >>
    ELSE <<Repr(Head(args), L) \o " ">> \o PutsLines(Tail(args), L)

builtin_puts(args, st) ==
    Ok([st EXCEPT !.out = @ \o PutsLines(args, st.lists) \o <<"\n">>], ElfNil)

(***************************************************************************)
(* The tree walk: evaluate_expression and the calls it makes.  Every       *)
(* operator takes the interpreter state and yields [st, val, err]; a       *)
(* non-empty err is a raised RuntimeError, which every caller propagates.  *)
(***************************************************************************)
\* Evaluator.global_env is the first Environment created.
GlobalEnvId == 1

NewEnv(st, parent) == [st EXCEPT !.envs = Append(@, Environment(parent))]
NewEnvId(st) == Len(st.envs) + 1

\* for name, value in d.items(): env.define(name, value, mutable=False)
RECURSIVE DefineAll(_, _, _, _)
DefineAll(es, id, names, d) ==
    IF names = {} THEN es
    ELSE LET n == CHOOSE x \in names : TRUE
         IN  DefineAll(Environment_define(es, id, n, d[n], FALSE), id, names \ {n}, d)

\* The bindings {parameters[i]: args[i]} for i < len(args), as a dict.
BoundArgs(parameters, args) ==
    LET n == IF Len(args) < Len(parameters) THEN Len(args) ELSE Len(parameters)
    IN  [name \in {parameters[i] : i \in 1..n} |->
            args[CHOOSE i \in 1..n : parameters[i] = name /\
                    \A j \in 1..n : parameters[j] = name => j <= i]]

RECURSIVE evaluate_expression(_, _, _)
RECURSIVE evaluate_all(_, _, _)
RECURSIVE evaluate_pairs(_, _, _)
RECURSIVE evaluate_statement(_, _, _)
RECURSIVE evaluate_block(_, _, _)
RECURSIVE evaluate_infix(_, _, _)
RECURSIVE evaluate_prefix(_, _, _)
RECURSIVE call_user_function(_, _, _, _)
RECURSIVE ElfBuiltinFunction_call(_, _, _)
RECURSIVE call_native(_, _, _)
RECURSIVE apply_from_global(_, _, _)
RECURSIVE map_items(_, _, _)
RECURSIVE filter_items(_, _, _)
RECURSIVE fold_items(_, _, _, _)
RECURSIVE thread_all(_, _, _)
RECURSIVE compose_all(_, _, _)

\* A call whose function holds a copy of its defining environment: the body
\* runs below a copy of the closure environment made for this call.
call_user_function_copying(func, args, env, st) ==
    IF Len(args) < Len(func.parameters) \/ func.closure_env.tag # "Environment"
    THEN Ok(st, ElfNil)
    ELSE LET copy == NewEnvId(st)
             st1 == [st EXCEPT !.envs = Append(@, @[func.closure_env.id])]
             func_env == NewEnvId(st1)
             st2 == NewEnv(st1, copy)
             bound == BoundArgs(func.parameters, args)
         IN  evaluate_block(func.body, func_env,
                            [st2 EXCEPT !.envs = DefineAll(@, func_env, DOMAIN bound, bound)])

\* call_user_function(func, args, env)
call_user_function(func, args, env, st) ==
    IF Len(args) < Len(func.parameters)
    THEN \* partial application: the bound arguments become a dict closure
         LET remaining_params == SubSeq(func.parameters, Len(args) + 1, Len(func.parameters))
             bound == BoundArgs(func.parameters, args)
         IN  IF func.closure_env.tag = "Environment"
             THEN Ok(st, ElfFunction(remaining_params, func.body, DictClosure(bound)))
             ELSE Ok(st, ElfFunction(remaining_params, func.body,
                                     DictClosure(bound @@ func.closure_env.vars)))
    ELSE LET func_env == NewEnvId(st)
             parent == IF func.closure_env.tag = "Environment" THEN func.closure_env.id
                       ELSE env
             st1 == NewEnv(st, parent)
             es1 == IF func.closure_env.tag = "Environment" THEN st1.envs
                    ELSE DefineAll(st1.envs, func_env, DOMAIN func.closure_env.vars,
                                   func.closure_env.vars)
             bound == BoundArgs(func.parameters, args)
             es2 == DefineAll(es1, func_env, DOMAIN bound, bound)
         IN  evaluate_block(func.body, func_env, [st1 EXCEPT !.envs = es2])

\* A block that goes on to its later statements after one of them raised,
\* and raises only once it is through.
evaluate_block_past_error(block, env, st) ==
    IF block.statements = << >> THEN Ok(st, ElfNil)
    ELSE LET r == evaluate_statement(Head(block.statements), env, st)
         IN  IF Len(block.statements) = 1 THEN r
             ELSE LET more == evaluate_block([block EXCEPT !.statements = Tail(@)], env, r.st)
                  IN  IF r.err # "" THEN [more EXCEPT !.err = r.err] ELSE more

\* evaluate_block(block, env)
evaluate_block(block, env, st) ==
    IF block.statements = << >> THEN Ok(st, ElfNil)
    ELSE LET r == evaluate_statement(Head(block.statements), env, st)
         IN  IF r.err # "" \/ Len(block.statements) = 1 THEN r
             ELSE evaluate_block([block EXCEPT !.statements = Tail(@)], env, r.st)

\* evaluate_statement(stmt, env)
evaluate_statement(stmt, env, st) ==
    CASE stmt.type = "Expression" -> evaluate_expression(stmt.value, env, st)
      [] stmt.type = "Comment" -> Ok(st, ElfNil)
      [] OTHER -> Raise(st, "Unknown statement type: " \o stmt.type)

\* The expressions evaluated from the last one to the first.
RECURSIVE evaluate_all_right_to_left(_, _, _)
evaluate_all_right_to_left(exprs, env, st) ==
    IF exprs = << >> THEN Ok(st, << >>)
    ELSE LET more == evaluate_all_right_to_left(Tail(exprs), env, st)
         IN  IF more.err # "" THEN more
             ELSE LET r == evaluate_expression(Head(exprs), env, more.st)
                  IN  IF r.err # "" THEN r ELSE Ok(r.st, <<r.val>> \o more.val)

\* [self.evaluate_expression(e, env) for e in exprs]; val is the list of values.
evaluate_all(exprs, env, st) ==
    IF exprs = << >> THEN Ok(st, << >>)
    ELSE LET r == evaluate_expression(Head(exprs), env, st)
         IN  IF r.err # "" THEN r
             ELSE LET more == evaluate_all(Tail(exprs), env, r.st)
                  IN  IF more.err # "" THEN more
                      ELSE Ok(more.st, <<r.val>> \o more.val)

\* The loop of the Dictionary literal: key, then value, then the key check.
evaluate_pairs(items, env, st) ==
    IF items = << >> THEN Ok(st, << >>)
    ELSE LET k == evaluate_expression(Head(items).key, env, st)
         IN  IF k.err # "" THEN k
             ELSE LET v == evaluate_expression(Head(items).value, env, k.st)
                  IN  IF v.err # "" THEN v
                      ELSE IF k.val.kind = "Dictionary"
                      THEN Raise(v.st, "Unable to use a Dictionary as a Dictionary key")
                      ELSE LET more == evaluate_pairs(Tail(items), env, v.st)
                           IN  IF more.err # "" THEN more
                               ELSE Ok(more.st, <<<<k.val, v.val>>>> \o more.val)

\* The same argument buffer: equal lengths and equal values place by place.
SameBuffer(a, b) ==
    /\ Len(a) = Len(b)
    /\ \A i \in 1..Len(a) : a[i].kind = b[i].kind /\ a[i] = b[i]

\* Every variable that holds the builtin `old` holds `new` instead.
Rebound(es, old, new) ==
    [e \in 1..Len(es) |->
        [es[e] EXCEPT !.variables =
            [n \in DOMAIN @ |->
                IF /\ @[n].kind = "BuiltinFunction"
                   /\ @[n].name = old.name
                   /\ SameBuffer(@[n].partial_args, old.partial_args)
                THEN new ELSE @[n]]]]

\* A call that extends the builtin's own argument buffer,
\* self.partial_args.extend(args), so that every holder of the builtin sees
\* the longer buffer.
ElfBuiltinFunction_call_in_place(self, args, st) ==
    LET all_args == self.partial_args \o args
        extended == [self EXCEPT !.partial_args = all_args]
        st1 == [st EXCEPT !.envs = Rebound(@, self, extended)]
    IN  IF self.arity = -1 THEN call_native(self.func, all_args, st)
        ELSE IF Len(all_args) < self.arity THEN Ok(st1, extended)
        ELSE call_native(self.func, SubSeq(all_args, 1, self.arity), st1)

\* ElfBuiltinFunction.call(*args)
ElfBuiltinFunction_call(self, args, st) ==
    LET all_args == self.partial_args \o args
    IN  IF self.arity = -1 THEN call_native(self.func, all_args, st)
        ELSE IF Len(all_args) < self.arity
        THEN Ok(st, ElfBuiltinFunction(self.name, self.func, self.arity, all_args))
        ELSE call_native(self.func, SubSeq(all_args, 1, self.arity), st)

\* func.call(*args) for a builtin, call_user_function(func, args, self.global_env)
\* for a user function: the dispatch used by map, filter, fold, composed_call
\* and thread_value.
apply_from_global(func, args, st) ==
    IF func.kind = "BuiltinFunction" THEN ElfBuiltinFunction_call(func, args, st)
    ELSE call_user_function(func, args, GlobalEnvId, st)

map_items(func, items, st) ==
    IF items = << >> THEN Ok(st, << >>)
    ELSE LET r == apply_from_global(func, <<Head(items)>>, st)
         IN  IF r.err # "" THEN r
             ELSE LET more == map_items(func, Tail(items), r.st)
                  IN  IF more.err # "" THEN more ELSE Ok(more.st, <<r.val>> \o more.val)

filter_items(predicate, items, st) ==
    IF items = << >> THEN Ok(st, << >>)
    ELSE LET r == apply_from_global(predicate, <<Head(items)>>, st)
         IN  IF r.err # "" THEN r
             ELSE LET more == filter_items(predicate, Tail(items), r.st)
                  IN  IF more.err # "" THEN more
                      ELSE Ok(more.st, (IF is_truthy(r.val, r.st.lists)
                                        THEN <<Head(items)>> ELSE << >>) \o more.val)

\* A fold that takes the elements from the last one to the first.
RECURSIVE fold_items_from_the_right(_, _, _, _)
fold_items_from_the_right(accumulator, func, items, st) ==
    IF items = << >> THEN Ok(st, accumulator)
    ELSE LET r == apply_from_global(func, <<accumulator, items[Len(items)]>>, st)
         IN  IF r.err # "" THEN r
             ELSE fold_items_from_the_right(r.val, func, SubSeq(items, 1, Len(items) - 1), r.st)

fold_items(accumulator, func, items, st) ==
    IF items = << >> THEN Ok(st, accumulator)
    ELSE LET r == apply_from_global(func, <<accumulator, Head(items)>>, st)
         IN  IF r.err # "" THEN r ELSE fold_items(r.val, func, Tail(items), r.st)

builtin_map(func, lst, st) ==
    IF lst.kind # "List"
    THEN Raise(st, "Unexpected argument: map(" \o TypeName(func) \o ", " \o TypeName(lst) \o ")")
    ELSE IF ~IsCallable(func)
    THEN Raise(st, "Unexpected argument: map(" \o TypeName(func) \o ", List)")
    ELSE LET r == map_items(func, st.lists[lst.items], st)
         IN  IF r.err # "" THEN r ELSE Ok(NewList(r.st, r.val), ElfList(NewRef(r.st)))

builtin_filter(predicate, lst, st) ==
    IF lst.kind # "List"
    THEN Raise(st, "Unexpected argument: filter(" \o TypeName(predicate) \o ", "
                    \o TypeName(lst) \o ")")
    ELSE IF ~IsCallable(predicate)
    THEN Raise(st, "Unexpected argument: filter(" \o TypeName(predicate) \o ", List)")
    ELSE LET r == filter_items(predicate, st.lists[lst.items], st)
         IN  IF r.err # "" THEN r ELSE Ok(NewList(r.st, r.val), ElfList(NewRef(r.st)))

builtin_fold(initial, func, lst, st) ==
    IF lst.kind # "List"
    THEN Raise(st, "Unexpected argument: fold(" \o TypeName(initial) \o ", "
                    \o TypeName(func) \o ", " \o TypeName(lst) \o ")")
    ELSE IF ~IsCallable(func)
    THEN Raise(st, "Unexpected argument: fold(" \o TypeName(initial) \o ", "
                    \o TypeName(func) \o ", List)")
    ELSE fold_items(initial, func, st.lists[lst.items], st)

\* composed_call(*args), the closure compose_functions returns.
composed_call(left, right, args, st) ==
    LET intermediate == apply_from_global(left, args, st)
    IN  IF intermediate.err # "" THEN intermediate
        ELSE apply_from_global(right, <<intermediate.val>>, intermediate.st)

\* The native implementation behind a builtin, applied to its arguments.
call_native(func, args, st) ==
    CASE func.tag = "builtin_puts" -> builtin_puts(args, st)
      [] func.tag = "builtin_push" -> builtin_push(args[1], args[2], st)
      [] func.tag = "builtin_assoc" -> builtin_assoc(args[1], args[2], args[3], st)
      [] func.tag = "builtin_first" -> builtin_first(args[1], st)
      [] func.tag = "builtin_rest" -> builtin_rest(args[1], st)
      [] func.tag = "builtin_size" -> builtin_size(args[1], st)
      [] func.tag = "builtin_map" -> builtin_map(args[1], args[2], st)
      [] func.tag = "builtin_filter" -> builtin_filter(args[1], args[2], st)
      [] func.tag = "builtin_fold" -> builtin_fold(args[1], args[2], args[3], st)
      [] func.tag = "builtin_add" -> add_values(args[1], args[2], st)
      [] func.tag = "builtin_subtract" -> subtract_values(args[1], args[2], st)
      [] func.tag = "builtin_multiply" -> multiply_values(args[1], args[2], st)
      [] func.tag = "builtin_divide" -> divide_values(args[1], args[2], st)
      [] func.tag = "composed_call" -> composed_call(func.left, func.right, args, st)

\* compose_functions(left, right)
compose_functions(left, right, st) ==
    IF ~IsCallable(left)
    THEN Raise(st, "Cannot compose non-function: " \o TypeName(left))
    ELSE IF ~IsCallable(right)
    THEN Raise(st, "Cannot compose non-function: " \o TypeName(right))
    ELSE Ok(st, ElfBuiltinFunction(
                    <<"(">> \o ReprChars(left, st.lists) \o <<">", ">">>
                        \o ReprChars(right, st.lists) \o <<")">>,
                    [tag |-> "composed_call", left |-> left, right |-> right], 1, << >>))

\* thread_value(value, func)
thread_value(value, func, st) ==
    IF ~IsCallable(func)
    THEN Raise(st, "Cannot thread into non-function: " \o TypeName(func))
    ELSE apply_from_global(func, <<value>>, st)

\* for func in functions: value = self.thread_value(value, func)
thread_all(value, functions, st) ==
    IF functions = << >> THEN Ok(st, value)
    ELSE LET r == thread_value(value, Head(functions), st)
         IN  IF r.err # "" THEN r ELSE thread_all(r.val, Tail(functions), r.st)

\* for func in functions[1:]: result = self.compose_functions(result, func)
compose_all(result, functions, st) ==
    IF functions = << >> THEN Ok(st, result)
    ELSE LET r == compose_functions(result, Head(functions), st)
         IN  IF r.err # "" THEN r ELSE compose_all(r.val, Tail(functions), r.st)

\* An && and an || that short-circuit: the right operand is evaluated only
\* when the left one does not decide, and the deciding operand is the value.
\* (Only the two logical operators are of interest here.)
evaluate_infix_short_circuit(expr, env, st) ==
    LET l == evaluate_expression(expr.left, env, st) IN
    IF l.err # "" THEN l
    ELSE IF expr.operator \notin {"&&", "||"} THEN Raise(l.st, "Unknown operator: " \o expr.operator)
    ELSE IF is_truthy(l.val, l.st.lists) = (expr.operator = "||") THEN l
    ELSE evaluate_expression(expr.right, env, l.st)

\* evaluate_infix(expr, env): both operands first, then the operator.
evaluate_infix(expr, env, st) ==
    LET l == evaluate_expression(expr.left, env, st) IN
    IF l.err # "" THEN l ELSE
    LET r == evaluate_expression(expr.right, env, l.st) IN
    IF r.err # "" THEN r ELSE
    LET operator == expr.operator
        left == l.val
        right == r.val
        s2 == r.st
        c == compare_values(left, right)
    IN  CASE operator = "+" -> add_values(left, right, s2)
          [] operator = "-" -> subtract_values(left, right, s2)
          [] operator = "*" -> multiply_values(left, right, s2)
          [] operator = "/" -> divide_values(left, right, s2)
          [] operator = "==" -> Ok(s2, ElfBoolean(values_equal(left, right, s2.lists)))
          [] operator = "!=" -> Ok(s2, ElfBoolean(~values_equal(left, right, s2.lists)))
          [] operator = ">" -> IF c.err # "" THEN Raise(s2, c.err)
                               ELSE Ok(s2, ElfBoolean(c.cmp > 0))
          [] operator = "<" -> IF c.err # "" THEN Raise(s2, c.err)
                               ELSE Ok(s2, ElfBoolean(c.cmp < 0))
          [] operator = ">=" -> IF c.err # "" THEN Raise(s2, c.err)
                                ELSE Ok(s2, ElfBoolean(c.cmp >= 0))
          [] operator = "<=" -> IF c.err # "" THEN Raise(s2, c.err)
                                ELSE Ok(s2, ElfBoolean(c.cmp <= 0))
          [] operator = "&&" ->
                Ok(s2, ElfBoolean(is_truthy(left, s2.lists) /\ is_truthy(right, s2.lists)))
          [] operator = "||" ->
                Ok(s2, ElfBoolean(is_truthy(left, s2.lists) \/ is_truthy(right, s2.lists)))
          [] operator = ">>" -> compose_functions(left, right, s2)
          [] operator = "|>" -> thread_value(left, right, s2)
          [] OTHER -> Raise(s2, "Unknown operator: " \o operator)

\* ElfDecimal(value) of the text of a DEC token: Decimal(value.replace('_', '')).
RECURSIVE DecodeDecimal(_, _, _, _)
DecodeDecimal(cs, coefficient, places, fraction) ==
    IF cs = << >> THEN ElfDecimal(coefficient, places)
    ELSE IF Head(cs) = "_" THEN DecodeDecimal(Tail(cs), coefficient, places, fraction)
    ELSE IF Head(cs) = "." THEN DecodeDecimal(Tail(cs), coefficient, places, TRUE)
    ELSE DecodeDecimal(Tail(cs),
                       10 * coefficient + ((CHOOSE i \in 1..10 : Digits[i] = Head(cs)) - 1),
                       IF fraction THEN places + 1 ELSE places, fraction)

\* evaluate_prefix(expr, env)
evaluate_prefix(expr, env, st) ==
    LET o == evaluate_expression(expr.operand, env, st) IN
    IF o.err # "" THEN o
    ELSE IF expr.operator = "-"
    THEN IF o.val.kind = "Integer" THEN Ok(o.st, ElfInteger(-o.val.value))
         ELSE IF o.val.kind = "Decimal"
         THEN Ok(o.st, ElfDecimal(-o.val.coefficient, o.val.places))
         ELSE Raise(o.st, "Unsupported operation: -" \o TypeName(o.val))
    ELSE Raise(o.st, "Unknown prefix operator: " \o expr.operator)

\* evaluate_expression(expr, env)
evaluate_expression(expr, env, st) ==
    CASE expr.type = "Integer" -> Ok(st, ElfInteger(expr.value))
      [] expr.type = "Decimal" -> Ok(st, DecodeDecimal(expr.value, 0, 0, FALSE))
      [] expr.type = "String" -> Ok(st, ElfString(expr.value))
      [] expr.type = "Boolean" -> Ok(st, ElfBoolean(expr.value))
      [] expr.type = "Nil" -> Ok(st, ElfNil)
      [] expr.type = "Identifier" ->
            LET g == Environment_get(st.envs, env, expr.name)
            IN  IF g.err # "" THEN Raise(st, g.err) ELSE Ok(st, g.val)
      [] expr.type \in {"Let", "MutableLet"} ->
            LET v == evaluate_expression(expr.value, env, st)
            IN  IF v.err # "" THEN v
                ELSE Ok([v.st EXCEPT !.envs = Environment_define(@, env, expr.name, v.val,
                                                    expr.type = "MutableLet")], v.val)
      [] expr.type = "Call" ->
            LET f == evaluate_expression(expr.function, env, st) IN
            IF f.err # "" THEN f ELSE
            LET a == evaluate_all(expr.arguments, env, f.st) IN
            IF a.err # "" THEN a
            ELSE IF f.val.kind = "BuiltinFunction"
            THEN ElfBuiltinFunction_call(f.val, a.val, a.st)
            ELSE IF f.val.kind = "Function"
            THEN call_user_function(f.val, a.val, env, a.st)
            ELSE Raise(a.st, "Expected a Function, found: " \o TypeName(f.val))
      [] expr.type = "Infix" -> evaluate_infix(expr, env, st)
      [] expr.type = "Prefix" -> evaluate_prefix(expr, env, st)
      [] expr.type = "Assignment" ->
            LET v == evaluate_expression(expr.value, env, st) IN
            IF v.err # "" THEN v ELSE
            LET a == Environment_assign(v.st.envs, env, expr.name, v.val)
            IN  IF a.err # "" THEN Raise(v.st, a.err)
                ELSE Ok([v.st EXCEPT !.envs = a.envs], v.val)
      [] expr.type = "List" ->
            LET items == evaluate_all(expr.items, env, st)
            IN  IF items.err # "" THEN items
                ELSE Ok(NewList(items.st, items.val), ElfList(NewRef(items.st)))
      [] expr.type = "Set" ->
            LET items == evaluate_all(expr.items, env, st)
            IN  IF items.err # "" THEN items
                ELSE IF \E i \in 1..Len(items.val) : items.val[i].kind = "Dictionary"
                THEN Raise(items.st, "Unable to include a Dictionary within a Set")
                ELSE Ok(NewList(items.st, items.val), ElfSet(NewRef(items.st)))
      [] expr.type = "Dictionary" ->
            LET pairs == evaluate_pairs(expr.items, env, st)
            IN  IF pairs.err # "" THEN pairs
                ELSE Ok(NewList(pairs.st, pairs.val), ElfDictionary(NewRef(pairs.st)))
      [] expr.type = "Function" ->
            Ok(st, ElfFunction(expr.parameters, expr.body, EnvRef(env)))
      [] expr.type = "If" ->
            LET c == evaluate_expression(expr.condition, env, st) IN
            IF c.err # "" THEN c
            ELSE IF is_truthy(c.val, c.st.lists)
            THEN evaluate_block(expr.consequence, env, c.st)
            ELSE IF expr.alternative.type = "Block"
            THEN evaluate_block(expr.alternative, env, c.st)
            ELSE Ok(c.st, ElfNil)
      [] expr.type = "Index" ->
            LET t == evaluate_expression(expr.left, env, st) IN
            IF t.err # "" THEN t ELSE
            LET i == evaluate_expression(expr.index, env, t.st) IN
            IF i.err # "" THEN i ELSE index_value(t.val, i.val, i.st)
      [] expr.type = "FunctionComposition" ->
            LET fs == evaluate_all(expr.functions, env, st) IN
            IF fs.err # "" THEN fs
            ELSE IF Len(fs.val) < 2
            THEN Raise(fs.st, "Function composition requires at least 2 functions")
            ELSE compose_all(fs.val[1], Tail(fs.val), fs.st)
      [] expr.type = "FunctionThread" ->
            LET v == evaluate_expression(expr.initial, env, st) IN
            IF v.err # "" THEN v ELSE
            LET fs == evaluate_all(expr.functions, env, v.st) IN
            IF fs.err # "" THEN fs ELSE thread_all(v.val, fs.val, fs.st)
      [] OTHER -> Raise(st, "Unknown expression type: " \o expr.type)

(***************************************************************************)
(* AST nodes, as parser.py builds them.  A name is kept as its string, an  *)
(* Integer literal as the number it decodes to.                            *)
(***************************************************************************)
IntLit(n) == [type |-> "Integer", value |-> n]
DecLit(cs) == [type |-> "Decimal", value |-> cs]
StrLit(cs) == [type |-> "String", value |-> cs]
NilLit == [type |-> "Nil"]
BoolLit(b) == [type |-> "Boolean", value |-> b]
Id(name) == [type |-> "Identifier", name |-> name]
Let(name, e) == [type |-> "Let", name |-> name, value |-> e]
MutableLet(name, e) == [type |-> "MutableLet", name |-> name, value |-> e]
Assignment(name, e) == [type |-> "Assignment", name |-> name, value |-> e]
Call(f, args) == [type |-> "Call", function |-> f, arguments |-> args]
Infix(op, l, r) == [type |-> "Infix", operator |-> op, left |-> l, right |-> r]
Index(l, i) == [type |-> "Index", left |-> l, index |-> i]
ListLit(items) == [type |-> "List", items |-> items]
SetLit(items) == [type |-> "Set", items |-> items]
Pair(k, v) == [key |-> k, value |-> v]
DictLit(pairs) == [type |-> "Dictionary", items |-> pairs]
Statement(e) == [type |-> "Expression", value |-> e]
Block(exprs) == [type |-> "Block", statements |-> [i \in 1..Len(exprs) |-> Statement(exprs[i])]]
Function(params, exprs) == [type |-> "Function", parameters |-> params, body |-> Block(exprs)]
FunctionComposition(fs) == [type |-> "FunctionComposition", functions |-> fs]
FunctionThread(x, fs) == [type |-> "FunctionThread", initial |-> x, functions |-> fs]
Comment == [type |-> "Comment"]

\* A stretch of source text the grammar rejects: parse_primary or expect
\* raises SyntaxError(message) on it.
Malformed(message) == [type |-> "Malformed", message |-> message]

\* A stretch of source text, given by the tokens the lexer makes of it.
Text(tokens) == [type |-> "Text", tokens |-> tokens]

(***************************************************************************)
(* parser.py: the recursive-descent parser, over the tokens of the lexer.  *)
(* A token is Token(type, value, position); `ts` is Parser.tokens and      *)
(* `pos` Parser.position + 1.  A parse function returns the node and the   *)
(* position it stopped at, or the message of the SyntaxError it raised.    *)
(***************************************************************************)
Token(type, value, position) == [type |-> type, value |-> value, position |-> position]

\* current_token is None
NoToken == [type |-> "None"]

\* Parser.advance keeps current_token = tokens[position], or None at the end.
current_token(ts, pos) == IF pos <= Len(ts) THEN ts[pos] ELSE NoToken

\* Parser.peek()
peek(ts, pos) == current_token(ts, pos + 1)

\* TokenType.X.value
TokenType_value(type) ==
    CASE type = "EQ" -> "=="
      [] type = "NE" -> "!="
      [] type = "GE" -> ">="
      [] type = "LE" -> "<="
      [] type = "AND" -> "&&"
      [] type = "OR" -> "||"
      [] type = "PIPE_OP" -> "|>"
      [] type = "COMPOSE" -> ">>"
      [] type = "DICT_START" -> "#{"
      [] type = "PLUS" -> "+"
      [] type = "MINUS" -> "-"
      [] type = "MULTIPLY" -> "*"
      [] type = "DIVIDE" -> "/"
      [] type = "ASSIGN" -> "="
      [] type = "GT" -> ">"
      [] type = "LT" -> "<"
      [] type = "LBRACE" -> "{"
      [] type = "RBRACE" -> "}"
      [] type = "LBRACKET" -> "["
      [] type = "RBRACKET" -> "]"
      [] type = "SEMICOLON" -> ";"
      [] type = "LPAREN" -> "("
      [] type = "RPAREN" -> ")"
      [] type = "COMMA" -> ","
      [] type = "COLON" -> ":"
      [] type = "PIPE" -> "|"
      [] OTHER -> type

\* repr() of a Python str: single quotes, unless the text has a single quote
\* and no double quote; backslash, newline, tab and the quote are escaped.
RECURSIVE PyEscape(_, _)
PyEscape(cs, quote) ==
    IF cs = << >> THEN << >>
    ELSE (CASE Head(cs) = "\\" -> <<"\\", "\\">>
            [] Head(cs) = "\n" -> <<"\\", "n">>
            [] Head(cs) = "\t" -> <<"\\", "t">>
            [] Head(cs) = quote -> <<"\\", quote>>
            [] OTHER -> <<Head(cs)>>) \o PyEscape(Tail(cs), quote)

PyRepr(cs) ==
    LET has(c) == \E i \in 1..Len(cs) : cs[i] = c
        quote == IF has("'") /\ ~has("\"") THEN "\"" ELSE "'"
    IN  quote \o JoinChars(PyEscape(cs, quote)) \o quote

\* str() of current_token: the NamedTuple's repr, or None.
Token_str(tok) ==
    IF tok.type = "None" THEN "None"
    ELSE "Token(type=<TokenType." \o tok.type \o ": '" \o TokenType_value(tok.type)
         \o "'>, value=" \o PyRepr(tok.value)
         \o ", position=" \o JoinChars(NatChars(tok.position)) \o ")"

\* What a parse function returns, and what it raises.
Parsed(node, pos) == [err |-> "", node |-> node, pos |-> pos]
SyntaxError(message) == [err |-> message, node |-> NilLit, pos |-> 0]

\* The message of expect(expected_type) on a token of another type.
expect_message(expected_type, tok) ==
    "Expected TokenType." \o expected_type \o ", got " \o Token_str(tok)

\* expect(expected_type) after the parse `r`: consumes the token.
expect(ts, r, expected_type) ==
    IF r.err # "" THEN r
    ELSE IF current_token(ts, r.pos).type # expected_type
    THEN SyntaxError(expect_message(expected_type, current_token(ts, r.pos)))
    ELSE Parsed(r.node, r.pos + 1)

\* The node of the parse `r` replaced by wrap-up of a compound node.
WithNode(r, node) == IF r.err # "" THEN r ELSE Parsed(node, r.pos)

\* int(value.replace('_', '')), on the digits of an INT token.
RECURSIVE DecodeInt(_, _)
DecodeInt(cs, acc) ==
    IF cs = << >> THEN acc
    ELSE IF Head(cs) = "_" THEN DecodeInt(Tail(cs), acc)
    ELSE DecodeInt(Tail(cs),
                   10 * acc + ((CHOOSE i \in 1..10 : Digits[i] = Head(cs)) - 1))

\* content.replace(old, new) for a two-character `old` and a one-character `new`.
RECURSIVE Replace2(_, _, _, _)
Replace2(cs, a, b, new) ==
    IF Len(cs) < 2 THEN cs
    ELSE IF cs[1] = a /\ cs[2] = b THEN <<new>> \o Replace2(Tail(Tail(cs)), a, b, new)
    ELSE <<cs[1]>> \o Replace2(Tail(cs), a, b, new)

\* parse_primary on a STR token: the quotes removed and the escapes replaced.
Unescaped(raw_value) ==
    IF Len(raw_value) >= 1 /\ raw_value[1] = "\"" /\ raw_value[Len(raw_value)] = "\""
    THEN Replace2(Replace2(Replace2(Replace2(
                SubSeq(raw_value, 2, Len(raw_value) - 1),
                "\\", "\"", "\""), "\\", "\\", "\\"), "\\", "n", "\n"), "\\", "t", "\t")
    ELSE raw_value

\* skip_comments()
RECURSIVE skip_comments(_, _)
skip_comments(ts, pos) ==
    IF current_token(ts, pos).type = "CMT" THEN skip_comments(ts, pos + 1) ELSE pos

RECURSIVE parse_statement(_, _)
RECURSIVE parse_expression(_, _)
RECURSIVE threading_loop(_, _, _, _)
RECURSIVE composition_loop(_, _, _)
RECURSIVE parse_binary(_, _, _)
RECURSIVE binary_loop(_, _, _, _)
RECURSIVE parse_unary(_, _)
RECURSIVE postfix_loop(_, _)
RECURSIVE parse_primary(_, _)
RECURSIVE expression_list(_, _, _, _)
RECURSIVE dictionary_loop(_, _, _)
RECURSIVE block_loop(_, _, _)
RECURSIVE parse_block(_, _)

\* left = {"left": left, "operator": operator, "right": right, "type": "Infix"}
InfixOf(left, operator, r) == IF r.err # "" THEN r ELSE Parsed(Infix(operator, left, r.node), r.pos)

\* The token types of the binary levels, loosest first: parse_logical_or,
\* parse_logical_and, parse_equality, parse_comparison, parse_addition and
\* parse_multiplication.
BinaryLevels ==
    <<{"OR"}, {"AND"}, {"EQ", "NE"}, {"GT", "LT", "GE", "LE"}, {"PLUS", "MINUS"},
      {"MULTIPLY", "DIVIDE"}>>

\* A binary level is `left = next level; while the token is an operator of
\* the level: right = next level; left = Infix`.  binary_loop runs these
\* loops in the order in which the Python calls return: the loop of `level`
\* on `left`, then the loops of the looser levels down to `outer`; a right
\* operand is the parse of the next tighter level.  parse_binary is the
\* parse function of `level`: its first operand is parse_unary's, met when
\* the calls through the tighter levels reach parse_multiplication.
binary_loop(ts, outer, level, left) ==
    IF left.err # "" THEN left
    ELSE IF current_token(ts, left.pos).type \in BinaryLevels[level]
    THEN binary_loop(ts, outer, level,
            InfixOf(left.node, JoinChars(current_token(ts, left.pos).value),
                    parse_binary(ts, left.pos + 1, level + 1)))
    ELSE IF level = outer THEN left
    ELSE binary_loop(ts, outer, level - 1, left)
parse_binary(ts, pos, level) ==
    IF level > Len(BinaryLevels) THEN parse_unary(ts, pos)
    ELSE binary_loop(ts, level, Len(BinaryLevels), parse_unary(ts, pos))
parse_logical_or(ts, pos) == parse_binary(ts, pos, 1)

\* parse_composition(): a lone operand, or the flat list of the operands
\* joined by >>.
composition_loop(ts, functions, r) ==
    IF r.err # "" THEN r
    ELSE IF current_token(ts, r.pos).type = "COMPOSE"
    THEN composition_loop(ts, Append(functions, r.node), parse_logical_or(ts, r.pos + 1))
    ELSE IF functions = << >> THEN r
    ELSE Parsed(FunctionComposition(Append(functions, r.node)), r.pos)
parse_composition(ts, pos) == composition_loop(ts, << >>, parse_logical_or(ts, pos))

\* parse_threading(): a lone operand, or the initial value and the functions
\* that follow each |>.
threading_loop(ts, initial, functions, r) ==
    IF r.err # "" THEN r
    ELSE IF current_token(ts, r.pos).type = "PIPE_OP"
    THEN threading_loop(ts, initial, Append(functions, r.node),
                        parse_composition(ts, r.pos + 1))
    ELSE Parsed(FunctionThread(initial, Append(functions, r.node)), r.pos)
threading_first(ts, left) ==
    IF left.err # "" THEN left
    ELSE IF current_token(ts, left.pos).type = "PIPE_OP"
    THEN threading_loop(ts, left.node, << >>, parse_composition(ts, left.pos + 1))
    ELSE left
parse_threading(ts, pos) == threading_first(ts, parse_composition(ts, pos))

\* parse_expression()
parse_expression(ts, pos) == parse_threading(ts, pos)

\* parse_unary(): every MINUS here is a prefix operator.
Prefix(operator, operand) == [type |-> "Prefix", operator |-> operator, operand |-> operand]
PrefixOf(operator, r) == WithNode(r, Prefix(operator, r.node))
parse_unary(ts, pos) ==
    IF current_token(ts, pos).type = "MINUS"
    THEN PrefixOf(JoinChars(current_token(ts, pos).value), parse_unary(ts, pos + 1))
    ELSE postfix_loop(ts, parse_primary(ts, pos))

\* The loop shared by the arguments of a call, parse_list and parse_set:
\* expressions up to `close`, a COMMA consumed after each; any other token
\* breaks the loop.
expression_item(ts, items, close, r) ==
    IF r.err # "" THEN r
    ELSE IF current_token(ts, r.pos).type = "COMMA"
    THEN expression_list(ts, r.pos + 1, Append(items, r.node), close)
    ELSE Parsed(Append(items, r.node), r.pos)
expression_list(ts, pos, items, close) ==
    IF current_token(ts, pos).type \in {"None", close} THEN Parsed(items, pos)
    ELSE expression_item(ts, items, close, parse_expression(ts, pos))

\* parse_postfix(): indexing and calls after a primary.
IndexOf(left, r) == WithNode(r, Index(left, r.node))
CallOf(left, r) == WithNode(r, Call(left, r.node))
postfix_loop(ts, left) ==
    IF left.err # "" THEN left
    ELSE IF current_token(ts, left.pos).type = "LBRACKET"
    THEN postfix_loop(ts, IndexOf(left.node,
            expect(ts, parse_expression(ts, left.pos + 1), "RBRACKET")))
    ELSE IF current_token(ts, left.pos).type = "LPAREN"
    THEN postfix_loop(ts, CallOf(left.node,
            expect(ts, expression_list(ts, left.pos + 1, << >>, "RPAREN"), "RPAREN")))
    ELSE left
parse_postfix(ts, pos) == postfix_loop(ts, parse_primary(ts, pos))

\* parse_let(): LET, an optional MUT, the name, ASSIGN and the value.
LetOf(name, is_mutable, r) ==
    WithNode(r, IF is_mutable THEN MutableLet(name, r.node) ELSE Let(name, r.node))
parse_let(ts, pos) ==
    LET is_mutable == current_token(ts, pos + 1).type = "MUT"
        at == IF is_mutable THEN pos + 2 ELSE pos + 1
    IN  IF current_token(ts, at).type # "ID"
        THEN SyntaxError("Expected identifier after let, got "
                         \o Token_str(current_token(ts, at)))
        ELSE IF current_token(ts, at + 1).type # "ASSIGN"
        THEN SyntaxError(expect_message("ASSIGN", current_token(ts, at + 1)))
        ELSE LetOf(JoinChars(current_token(ts, at).value), is_mutable,
                   parse_expression(ts, at + 2))

\* parse_block(): LBRACE, statements (comments skipped) up to RBRACE.
block_statement(ts, statements, r) ==
    IF r.err # "" THEN r ELSE block_loop(ts, r.pos, Append(statements, r.node))
block_loop(ts, pos, statements) ==
    IF current_token(ts, skip_comments(ts, pos)).type \in {"None", "RBRACE"}
    THEN Parsed(statements, skip_comments(ts, pos))
    ELSE block_statement(ts, statements, parse_statement(ts, skip_comments(ts, pos)))
BlockOf(r) == WithNode(r, [type |-> "Block", statements |-> r.node])
parse_block(ts, pos) ==
    IF current_token(ts, pos).type # "LBRACE"
    THEN SyntaxError(expect_message("LBRACE", current_token(ts, pos)))
    ELSE BlockOf(expect(ts, block_loop(ts, pos + 1, << >>), "RBRACE"))

\* parse_if(): the condition, the consequence and an optional ELSE block.
NoAlternative == [type |-> "None"]
If(condition, consequence, alternative) ==
    [type |-> "If", condition |-> condition, consequence |-> consequence,
     alternative |-> alternative]
if_alternative(condition, consequence, r) ==
    WithNode(r, If(condition, consequence, r.node))
if_consequence(ts, condition, r) ==
    IF r.err # "" THEN r
    ELSE IF current_token(ts, r.pos).type = "ELSE"
    THEN if_alternative(condition, r.node, parse_block(ts, r.pos + 1))
    ELSE Parsed(If(condition, r.node, NoAlternative), r.pos)
if_condition(ts, r) ==
    IF r.err # "" THEN r ELSE if_consequence(ts, r.node, parse_block(ts, r.pos))
parse_if(ts, pos) == if_condition(ts, parse_expression(ts, pos + 1))

\* parse_list() and parse_set()
ItemsOf(type, r) == WithNode(r, [type |-> type, items |-> r.node])
parse_list(ts, pos) ==
    ItemsOf("List", expect(ts, expression_list(ts, pos + 1, << >>, "RBRACKET"), "RBRACKET"))
parse_set(ts, pos) ==
    ItemsOf("Set", expect(ts, expression_list(ts, pos + 1, << >>, "RBRACE"), "RBRACE"))

\* parse_dictionary(): key COLON value pairs up to RBRACE.
dictionary_value(ts, items, key, r) ==
    IF r.err # "" THEN r
    ELSE IF current_token(ts, r.pos).type = "COMMA"
    THEN dictionary_loop(ts, r.pos + 1, Append(items, Pair(key, r.node)))
    ELSE Parsed(Append(items, Pair(key, r.node)), r.pos)
dictionary_key(ts, items, r) ==
    IF r.err # "" THEN r
    ELSE dictionary_value(ts, items, r.node, parse_expression(ts, r.pos))
dictionary_loop(ts, pos, items) ==
    IF current_token(ts, pos).type \in {"None", "RBRACE"} THEN Parsed(items, pos)
    ELSE dictionary_key(ts, items, expect(ts, parse_expression(ts, pos), "COLON"))
parse_dictionary(ts, pos) ==
    ItemsOf("Dictionary", expect(ts, dictionary_loop(ts, pos + 1, << >>), "RBRACE"))

\* The parameters of parse_function: identifiers, a COMMA consumed after each.
RECURSIVE parameters_loop(_, _, _)
parameters_loop(ts, pos, parameters) ==
    IF current_token(ts, pos).type # "ID" THEN Parsed(parameters, pos)
    ELSE parameters_loop(ts,
            IF current_token(ts, pos + 1).type = "COMMA" THEN pos + 2 ELSE pos + 1,
            Append(parameters, JoinChars(current_token(ts, pos).value)))

\* The body of a function literal: a block, or one expression wrapped in one.
ExpressionBody(r) ==
    WithNode(r, [type |-> "Block", statements |-> <<Statement(r.node)>>])
function_body(ts, pos) ==
    IF current_token(ts, pos).type = "LBRACE" THEN parse_block(ts, pos)
    ELSE ExpressionBody(parse_expression(ts, pos))

\* parse_function() and parse_zero_param_function()
FunctionOf(parameters, r) ==
    WithNode(r, [type |-> "Function", parameters |-> parameters, body |-> r.node])
function_parameters(ts, r) ==
    IF r.err # "" THEN r ELSE FunctionOf(r.node, function_body(ts, r.pos))
parse_function(ts, pos) ==
    function_parameters(ts, expect(ts, parameters_loop(ts, pos + 1, << >>), "PIPE"))
parse_zero_param_function(ts, pos) == FunctionOf(<< >>, function_body(ts, pos + 1))

\* parse_primary()
parse_primary(ts, pos) ==
    LET tok == current_token(ts, pos)
        type == tok.type
    IN  CASE type = "None" -> SyntaxError("Unexpected end of input")
          [] type = "INT" -> Parsed(IntLit(DecodeInt(tok.value, 0)), pos + 1)
          [] type = "DEC" -> Parsed([type |-> "Decimal", value |-> tok.value], pos + 1)
          [] type = "STR" -> Parsed(StrLit(Unescaped(tok.value)), pos + 1)
          [] type = "TRUE" -> Parsed([type |-> "Boolean", value |-> TRUE], pos + 1)
          [] type = "FALSE" -> Parsed([type |-> "Boolean", value |-> FALSE], pos + 1)
          [] type = "NIL" -> Parsed(NilLit, pos + 1)
          [] type = "ID" -> Parsed(Id(JoinChars(tok.value)), pos + 1)
          [] type = "LPAREN" -> expect(ts, parse_expression(ts, pos + 1), "RPAREN")
          [] type = "LET" -> parse_let(ts, pos)
          [] type = "IF" -> parse_if(ts, pos)
          [] type = "LBRACKET" -> parse_list(ts, pos)
          [] type = "LBRACE" -> parse_set(ts, pos)
          [] type = "DICT_START" -> parse_dictionary(ts, pos)
          [] type = "PIPE" -> parse_function(ts, pos)
          [] type = "OR" -> parse_zero_param_function(ts, pos)
          [] type \in {"PLUS", "MINUS", "MULTIPLY", "DIVIDE"} ->
                Parsed(Id(JoinChars(tok.value)), pos + 1)
          [] OTHER -> SyntaxError("Unexpected token: " \o Token_str(tok))

\* parse_statement(): a comment, an assignment `ID = expr` or an expression,
\* each followed by an optional SEMICOLON.
IsAssignment(ts, pos) ==
    current_token(ts, pos).type = "ID" /\ peek(ts, pos).type = "ASSIGN"
statement_end(ts, is_assignment, name, r) ==
    IF r.err # "" THEN r
    ELSE Parsed(Statement(IF is_assignment THEN Assignment(name, r.node) ELSE r.node),
                IF current_token(ts, r.pos).type = "SEMICOLON" THEN r.pos + 1 ELSE r.pos)
parse_statement(ts, pos) ==
    IF current_token(ts, pos).type = "CMT" THEN Parsed(Comment, pos + 1)
    ELSE statement_end(ts, IsAssignment(ts, pos),
            IF IsAssignment(ts, pos) THEN JoinChars(current_token(ts, pos).value) ELSE "",
            parse_expression(ts, IF IsAssignment(ts, pos) THEN pos + 2 ELSE pos))

\* Parser.parse(): statements until the tokens run out.
RECURSIVE parse_loop(_, _, _)
parse_next(ts, statements, r) ==
    IF r.err # "" THEN [err |-> r.err, statements |-> << >>]
    ELSE parse_loop(ts, r.pos, Append(statements, r.node))
parse_loop(ts, pos, statements) ==
    IF pos > Len(ts) THEN [err |-> "", statements |-> statements]
    ELSE parse_next(ts, statements, parse_statement(ts, pos))
parse(ts) == parse_loop(ts, 1, << >>)

(***************************************************************************)
(* Evaluator.__init__: the global environment with the builtins.           *)
(***************************************************************************)
Builtin(name, tag, arity) == ElfBuiltinFunction(name, [tag |-> tag], arity, << >>)

Builtins ==
    [puts |-> Builtin(<<"p", "u", "t", "s">>, "builtin_puts", -1),
     push |-> Builtin(<<"p", "u", "s", "h">>, "builtin_push", 2),
     assoc |-> Builtin(<<"a", "s", "s", "o", "c">>, "builtin_assoc", 3),
     first |-> Builtin(<<"f", "i", "r", "s", "t">>, "builtin_first", 1),
     rest |-> Builtin(<<"r", "e", "s", "t">>, "builtin_rest", 1),
     size |-> Builtin(<<"s", "i", "z", "e">>, "builtin_size", 1),
     map |-> Builtin(<<"m", "a", "p">>, "builtin_map", 2),
     filter |-> Builtin(<<"f", "i", "l", "t", "e", "r">>, "builtin_filter", 2),
     fold |-> Builtin(<<"f", "o", "l", "d">>, "builtin_fold", 3)]
    @@ ("+" :> Builtin(<<"+">>, "builtin_add", 2))
    @@ ("-" :> Builtin(<<"-">>, "builtin_subtract", 2))
    @@ ("*" :> Builtin(<<"*">>, "builtin_multiply", 2))
    @@ ("/" :> Builtin(<<"/">>, "builtin_divide", 2))

Evaluator_init ==
    [parent |-> 0, variables |-> Builtins, mutable |-> [n \in DOMAIN Builtins |-> FALSE]]

(***************************************************************************)
(* evaluate_program: parse, then the statement loop, then the final value. *)
(***************************************************************************)
\* ''.join(output_buffer)
RECURSIVE JoinText(_)
JoinText(buf) == IF buf = << >> THEN "" ELSE Head(buf) \o JoinText(Tail(buf))

\* Parser(source).parse() over the stretches of the text in order: the
\* statements, or the SyntaxError of the first stretch that no statement
\* matches.
RECURSIVE parse_source(_, _, _)
source_text(src, i, statements, r) ==
    IF r.err # "" THEN r ELSE parse_source(src, i + 1, statements \o r.statements)
parse_source(src, i, statements) ==
    IF i > Len(src) THEN [err |-> "", statements |-> statements]
    ELSE IF src[i].type = "Malformed"
    THEN [err |-> src[i].message, statements |-> << >>]
    ELSE IF src[i].type = "Text"
    THEN source_text(src, i, statements, parse(src[i].tokens))
    ELSE parse_source(src, i + 1, Append(statements, src[i]))
Parser_parse(src) == parse_source(src, 1, << >>)

\* The state the interpreter is in while it evaluates.
Current == St(lists, envs, output_buffer)

\* The statement the loop of Evaluator.evaluate_program is at, evaluated.
StepResult == evaluate_statement(ast[pc], GlobalEnvId, Current)

\* The initial state, for a program text drawn from `programs`.
InitWith(programs) ==
    /\ source \in programs
    /\ ast = << >>
    /\ pc = 0
    /\ stage = "start"
    /\ lists = << >>
    /\ envs = << >>
    /\ output_buffer = << >>
    /\ last_result = ElfNil
    /\ raised = ""
    /\ returned = ""
    /\ calls = << >>

\* A parser with recovery, which evaluate_program does not have: the
\* statements parsed before the first SyntaxError are handed to the Evaluator.
RECURSIVE parse_loop_recovering(_, _, _)
parse_loop_recovering(ts, pos, statements) ==
    IF pos > Len(ts) THEN [err |-> "", statements |-> statements]
    ELSE LET r == parse_statement(ts, pos)
         IN  IF r.err # "" THEN [err |-> r.err, statements |-> statements]
             ELSE parse_loop_recovering(ts, r.pos, Append(statements, r.node))

RECURSIVE parse_source_recovering(_, _, _)
parse_source_recovering(src, i, statements) ==
    IF i > Len(src) \/ src[i].type = "Malformed" THEN statements
    ELSE IF src[i].type = "Text"
    THEN LET r == parse_loop_recovering(src[i].tokens, 1, << >>)
         IN  IF r.err # "" THEN statements \o r.statements
             ELSE parse_source_recovering(src, i + 1, statements \o r.statements)
    ELSE parse_source_recovering(src, i + 1, Append(statements, src[i]))

Parse_recovering ==
    /\ stage = "start"
    /\ ast' = parse_source_recovering(source, 1, << >>)
    /\ pc' = 1
    /\ stage' = "eval"
    /\ envs' = <<Evaluator_init>>
    /\ lists' = << >>
    /\ output_buffer' = << >>
    /\ last_result' = ElfNil
    /\ UNCHANGED <<source, raised, returned, calls>>

\* One Evaluator kept for all the calls, which the code does not do: its
\* global environment lives on (evaluate_program empties the output buffer).
Parse_reusing ==
    /\ stage = "start"
    /\ \E program \in {Parser_parse(source)} :
            /\ program.err = ""
            /\ ast' = program.statements
    /\ pc' = 1
    /\ stage' = "eval"
    /\ envs' = IF envs = << >> THEN <<Evaluator_init>> ELSE envs
    /\ lists' = lists
    /\ output_buffer' = << >>
    /\ last_result' = ElfNil
    /\ UNCHANGED <<source, raised, returned, calls>>

\* evaluate_program(source): the parser accepts the text; an Evaluator is made.
Parse ==
    /\ stage = "start"
    /\ \E program \in {Parser_parse(source)} :
            /\ program.err = ""
            /\ ast' = program.statements
    /\ pc' = 1
    /\ stage' = "eval"
    /\ envs' = <<Evaluator_init>>
    /\ lists' = << >>
    /\ output_buffer' = << >>
    /\ last_result' = ElfNil
    /\ UNCHANGED <<source, raised, returned, calls>>

\* evaluate_program(source): the parser raises; `except Exception` returns str(e).
ParseFails ==
    /\ stage = "start"
    /\ \E program \in {Parser_parse(source)} :
            /\ program.err # ""
            /\ raised' = program.err
            /\ returned' = program.err
    /\ stage' = "returned"
    /\ UNCHANGED <<source, ast, pc, lists, envs, output_buffer, last_result, calls>>

\* One round of the loop of Evaluator.evaluate_program, without an error.
EvaluateStatement ==
    /\ stage = "eval"
    /\ pc <= Len(ast)
    /\ \E r \in {StepResult} :
            /\ r.err = ""
            /\ lists' = r.st.lists
            /\ envs' = r.st.envs
            /\ output_buffer' = r.st.out
            /\ last_result' = IF ast[pc].type # "Comment" THEN r.val ELSE last_result
    /\ pc' = pc + 1
    /\ UNCHANGED <<source, ast, stage, raised, returned, calls>>

\* The statement raises RuntimeError: the handler appends the error line and
\* returns the joined buffer.
StatementRaises ==
    /\ stage = "eval"
    /\ pc <= Len(ast)
    /\ \E r \in {StepResult} :
            /\ r.err # ""
            /\ lists' = r.st.lists
            /\ envs' = r.st.envs
            /\ output_buffer' = Append(r.st.out, "[Error] " \o r.err)
            /\ raised' = r.err
    /\ returned' = JoinText(output_buffer')
    /\ stage' = "returned"
    /\ UNCHANGED <<source, ast, pc, last_result, calls>>

\* The loop is over: the final value is appended and the buffer returned.
Finish ==
    /\ stage = "eval"
    /\ pc > Len(ast)
    /\ output_buffer' = Append(output_buffer, Repr(last_result, lists))
    /\ returned' = JoinText(output_buffer')
    /\ stage' = "returned"
    /\ UNCHANGED <<source, ast, pc, lists, envs, last_result, raised, calls>>

\* Evaluator.evaluate_program(ast) and evaluate_program(source) as functions
\* of the text: what the actions above do in steps.
RECURSIVE Evaluator_evaluate_program(_, _, _, _)
Evaluator_evaluate_program(statements, i, st, last) ==
    IF i > Len(statements) THEN JoinText(Append(st.out, Repr(last, st.lists)))
    ELSE LET r == evaluate_statement(statements[i], GlobalEnvId, st)
         IN  IF r.err # "" THEN JoinText(Append(r.st.out, "[Error] " \o r.err))
             ELSE Evaluator_evaluate_program(statements, i + 1, r.st,
                        IF statements[i].type # "Comment" THEN r.val ELSE last)
evaluate_program(src) ==
    LET program == Parser_parse(src)
    IN  IF program.err # "" THEN program.err
        ELSE Evaluator_evaluate_program(program.statements, 1,
                                        St(<< >>, <<Evaluator_init>>, << >>), ElfNil)

\* evaluate_program is called once more, on `program`: the caller keeps the
\* text of the call before, and the objects of that call are still around.
MaxCalls == 3
CallAgain(program) ==
    /\ stage = "returned"
    /\ Len(calls) + 1 < MaxCalls
    /\ calls' = Append(calls, [source |-> source, returned |-> returned])
    /\ source' = program
    /\ stage' = "start"
    /\ raised' = ""
    /\ returned' = ""
    /\ UNCHANGED <<ast, pc, lists, envs, output_buffer, last_result>>

Next == Parse \/ ParseFails \/ EvaluateStatement \/ StatementRaises \/ Finish

\* All the program texts of at most MaxStmts statements over a library.
Programs(library) == UNION {[1..n -> library] : n \in 1..MaxStmts}

(***************************************************************************)
(* Reading the reachable values.                                           *)
(***************************************************************************)
\* The value a name is bound to in the global environment.
GlobalValue(name) == envs[GlobalEnvId].variables[name]
GlobalNames == IF envs = << >> THEN {} ELSE DOMAIN envs[GlobalEnvId].variables

\* The values the program holds: the last result and the global bindings.
HeldValues == {last_result} \cup {GlobalValue(n) : n \in GlobalNames}

\* A value with every list reference replaced by the contents it refers to.
RECURSIVE Deep(_, _)
Deep(v, L) ==
    CASE v.kind \in {"List", "Set"} ->
            [kind |-> v.kind, items |-> [i \in 1..Len(L[v.items]) |-> Deep(L[v.items][i], L)]]
      [] v.kind = "Dictionary" ->
            [kind |-> v.kind,
             items |-> [i \in 1..Len(L[v.items]) |->
                            <<Deep(L[v.items][i][1], L), Deep(L[v.items][i][2], L)>>]]
      [] v.kind = "BuiltinFunction" ->
            [v EXCEPT !.partial_args = [i \in 1..Len(@) |-> Deep(@[i], L)]]
      [] OTHER -> v

\* The statements already evaluated without an error.
Evaluated == IF stage = "start" THEN << >> ELSE SubSeq(ast, 1, pc - 1)

\* The last statement evaluated without an error.
JustEvaluated(stmt) == stage = "eval" /\ pc > 1 /\ ast[pc - 1] = stmt

(***************************************************************************)
(* Programs over sets.                                                     *)
(***************************************************************************)
SetExample == Statement(SetLit(<<IntLit(3), IntLit(1), IntLit(2), IntLit(1)>>))

LibSets ==
    { SetExample,
      Statement(MutableLet("s", SetLit(<<IntLit(2), IntLit(1)>>))),
      Statement(MutableLet("s", SetLit(<<IntLit(1), IntLit(1)>>))),
      Statement(Assignment("s", Call(Id("push"), <<IntLit(1), Id("s")>>))),
      Statement(Assignment("s", Call(Id("push"), <<IntLit(3), Id("s")>>))),
      Statement(Assignment("s", Infix("+", Id("s"), SetLit(<<IntLit(3), IntLit(1)>>)))),
      Statement(Assignment("s", Call(Id("rest"), <<Id("s")>>))),
      Statement(Call(Id("puts"), <<Id("s"), Call(Id("size"), <<Id("s")>>)>>)),
      Malformed("Unexpected end of input") }

InitSets == InitWith(Programs(LibSets))
SpecSets == InitSets /\ [][Next]_vars

NoEqualElements(items, L) ==
    \A i, j \in 1..Len(items) : i < j => ~values_equal(items[i], items[j], L)

\* C1: every Set value the program builds (by a set literal, push, Set + Set
\* or rest) holds no two structurally-equal elements; the literal
\* { 3, 1, 2, 1 } yields a set of size 3 that prints as {1, 2, 3}.
C1_SetsHoldNoEqualElements ==
    /\ \A v \in HeldValues : v.kind = "Set" => NoEqualElements(lists[v.items], lists)
    /\ JustEvaluated(SetExample) =>
            /\ builtin_size(last_result, Current).val = ElfInteger(3)
            /\ Repr(last_result, lists) = "{1, 2, 3}"

(***************************************************************************)
(* Programs over dictionaries.                                             *)
(***************************************************************************)
\* #{1: 10, 1: 20}, a literal that repeats the key 1
RepeatedKeyLit == DictLit(<<Pair(IntLit(1), IntLit(10)), Pair(IntLit(1), IntLit(20))>>)
EmptyDictLit == DictLit(<< >>)

LibDicts ==
    { Statement(MutableLet("d", RepeatedKeyLit)),
      Statement(MutableLet("d", DictLit(<<Pair(IntLit(1), IntLit(10)),
                                          Pair(IntLit(2), IntLit(20))>>))),
      Statement(Index(Id("d"), IntLit(1))),
      Statement(Call(Id("size"), <<Id("d")>>)),
      Statement(Assignment("d", Call(Id("assoc"), <<EmptyDictLit, IntLit(1), Id("d")>>))),
      Statement(Assignment("d", Call(Id("assoc"), <<IntLit(1), IntLit(30), Id("d")>>))),
      Statement(Assignment("d", Infix("+", Id("d"), DictLit(<<Pair(IntLit(2), IntLit(5))>>)))),
      Statement(Assignment("d", Call(Id("rest"), <<Id("d")>>))),
      Statement(Index(Id("d"), EmptyDictLit)),
      Statement(DictLit(<<Pair(EmptyDictLit, IntLit(1))>>)),
      Malformed("Unexpected end of input") }

InitDicts == InitWith(Programs(LibDicts))
SpecDicts == InitDicts /\ [][Next]_vars

\* The dictionary literal a statement binds or yields, if it is one.
IsDictLitStatement(stmt) ==
    /\ stmt.type = "Expression"
    /\ \/ stmt.value.type = "Dictionary"
       \/ stmt.value.type \in {"Let", "MutableLet"} /\ stmt.value.value.type = "Dictionary"

DictLitOf(stmt) == IF stmt.value.type = "Dictionary" THEN stmt.value ELSE stmt.value.value

\* The value of an integer literal, as the evaluator decodes it.
LitValue(e) == ElfInteger(e.value)

\* C2: a dictionary literal that repeats a key yields a Dictionary holding
\* that key once, with the value of its last occurrence: size counts the key
\* once and indexing by the key returns the last-written value.
C2_RepeatedKeyKeepsLastWrite ==
    (stage = "eval" /\ pc > 1 /\ IsDictLitStatement(ast[pc - 1])
        /\ \A i \in 1..Len(DictLitOf(ast[pc - 1]).items) :
                DictLitOf(ast[pc - 1]).items[i].key.type = "Integer") =>
        LET items == DictLitOf(ast[pc - 1]).items
            keys == {items[i].key.value : i \in 1..Len(items)}
            last(k) == CHOOSE i \in 1..Len(items) :
                            /\ items[i].key.value = k
                            /\ \A j \in 1..Len(items) : items[j].key.value = k => j <= i
        IN  /\ builtin_size(last_result, Current).val = ElfInteger(Cardinality(keys))
            /\ \A k \in keys :
                    index_value(last_result, ElfInteger(k), Current).val
                        = LitValue(items[last(k)].value)

\* C3: no Dictionary value the program can reach (by a dictionary literal,
\* assoc, Dictionary + Dictionary or rest) has a key of kind Dictionary, so a
\* lookup by a Dictionary-kind index never finds an entry.
C3_NoDictionaryKey ==
    /\ \A v \in HeldValues : v.kind = "Dictionary" =>
            \A i \in 1..Len(lists[v.items]) : lists[v.items][i][1].kind # "Dictionary"
    /\ \A v \in HeldValues : v.kind = "Dictionary" =>
            \A k \in HeldValues : k.kind = "Dictionary" =>
                index_value(v, k, Current).val = ElfNil

(***************************************************************************)
(* Programs that reread a collection after push / assoc / + / rest.        *)
(***************************************************************************)
PushThroughAlias == Statement(Call(Id("push"), <<IntLit(3), Id("y")>>))

LibFrame ==
    { Statement(MutableLet("x", ListLit(<<IntLit(1), IntLit(2)>>))),
      Statement(MutableLet("x", SetLit(<<IntLit(1), IntLit(2)>>))),
      Statement(MutableLet("x", DictLit(<<Pair(IntLit(1), IntLit(10))>>))),
      Statement(Let("y", Id("x"))),
      PushThroughAlias,
      Statement(Call(Id("assoc"), <<IntLit(2), IntLit(20), Id("y")>>)),
      Statement(Infix("+", Id("x"), Id("y"))),
      Statement(Call(Id("rest"), <<Id("x")>>)),
      Statement(Assignment("x", Call(Id("push"), <<IntLit(4), Id("x")>>))),
      Malformed("Unexpected end of input") }

InitFrame == InitWith(Programs(LibFrame))
SpecFrame == InitFrame /\ [][Next]_vars

\* The statement binds or assigns the name.
Rebinds(stmt, name) ==
    /\ stmt.type = "Expression"
    /\ stmt.value.type \in {"Let", "MutableLet", "Assignment"}
    /\ stmt.value.name = name

\* C4: push, assoc, + and rest never change their operands: across every
\* statement that does not rebind a variable, rereading the variable yields
\* a value structurally the same as before, also when the collection was
\* handed to the operation through another variable bound to the same value.
C4_OperandsUnchanged ==
    [][(stage = "eval" /\ stage' = "eval") =>
            \A n \in GlobalNames :
                ~Rebinds(ast[pc], n) =>
                    Deep(GlobalValue(n), lists) = Deep(GlobalValue(n)', lists')]_vars

\* let mut x = [1, 2]; let y = x; push(3, y) has just run: the push yielded
\* a three-element list while x and y still read [1, 2].
C4_PushedThroughAlias ==
    /\ JustEvaluated(PushThroughAlias)
    /\ "x" \in GlobalNames /\ "y" \in GlobalNames
    /\ GlobalValue("x") = GlobalValue("y")
    /\ GlobalValue("x").kind = "List"
    /\ Repr(GlobalValue("x"), lists) = "[1, 2]"
    /\ Repr(last_result, lists) = "[1, 2, 3]"

(***************************************************************************)
(* Programs over closures and partial application.                         *)
(***************************************************************************)
\* |a, b| a + b + z, made inside an invocation of |z| { ... } with z = 10
AddWithZ == Function(<<"a", "b">>, <<Infix("+", Infix("+", Id("a"), Id("b")), Id("z"))>>)
LetF == Statement(Let("f", Call(Function(<<"z">>, <<AddWithZ>>), <<IntLit(10)>>)))
LetQ == Statement(Let("q", Call(Id("f"), <<IntLit(1)>>)))
CallQ == Statement(Call(Id("q"), <<IntLit(2)>>))
CallF == Statement(Call(Id("f"), <<IntLit(1), IntLit(2)>>))

\* |a, b| { x = 5 }, made inside an invocation of || { let x = 1; ... } and
\* then given its first argument
AssignX == Function(<<"a", "b">>, <<Assignment("x", IntLit(5))>>)
LetG ==
    Statement(Let("g", Call(Call(Function(<< >>, <<Let("x", IntLit(1)), AssignX>>), << >>),
                            <<IntLit(1)>>)))
CallG == Statement(Call(Id("g"), <<IntLit(2)>>))

LibClosures ==
    { LetF, LetQ, CallQ, CallF, LetG, CallG,
      Statement(MutableLet("x", IntLit(0))),
      Statement(Let("x", IntLit(1))),
      Statement(Assignment("x", IntLit(2))),
      Malformed("Unexpected end of input") }

InitClosures == InitWith(Programs(LibClosures))
SpecClosures == InitClosures /\ [][Next]_vars

NotMutable(name) == "Variable '" \o name \o "' is not mutable"

\* The statement at hand assigns, at top level, to a global bound by `let`.
AssignsToImmutableGlobal(name) ==
    /\ ast[pc].type = "Expression"
    /\ ast[pc].value.type = "Assignment"
    /\ ast[pc].value.name = name
    /\ name \in GlobalNames
    /\ ~envs[GlobalEnvId].mutable[name]

\* C5: an assignment to a name whose nearest enclosing binding was made by
\* `let` raises Variable '<name>' is not mutable and leaves the binding as it
\* was: at top level for a global bound by `let`, and in the body of g,
\* where the nearest binding of x is the `let x = 1` of the enclosing body.
C5_ImmutableAssignmentRaises ==
    (stage = "eval" /\ pc <= Len(ast)) =>
        /\ \A n \in GlobalNames :
                AssignsToImmutableGlobal(n) =>
                    /\ StepResult.err = NotMutable(n)
                    /\ StepResult.st.envs[GlobalEnvId].variables[n] = GlobalValue(n)
        /\ (ast[pc] = CallG /\ "g" \in GlobalNames) =>
                /\ StepResult.err = NotMutable("x")
                /\ "x" \in GlobalNames =>
                        StepResult.st.envs[GlobalEnvId].variables["x"] = GlobalValue("x")

\* The arguments tried on a function of n parameters.
SampleArgs(n) == [1..n -> {ElfInteger(1), ElfInteger(2)}]

\* Two outcomes agree: the same error, or no error and the same value.
SameOutcome(r1, r2) ==
    /\ r1.err = r2.err
    /\ r1.err = "" => Deep(r1.val, r1.st.lists) = Deep(r2.val, r2.st.lists)

\* C6: for a user function f of n >= 2 parameters and k < n arguments,
\* f(a1..ak) is a function of n - k parameters which, given the remaining
\* arguments, yields the same value or error as f(a1..an); f may close over
\* the variables of an enclosing function invocation.
C6_PartialApplicationKeepsClosure ==
    stage = "eval" =>
        \A name \in GlobalNames :
            LET fn == GlobalValue(name) IN
            (fn.kind = "Function" /\ Len(fn.parameters) >= 2) =>
                LET n == Len(fn.parameters) IN
                \A args \in SampleArgs(n) : \A k \in 1..(n - 1) :
                    LET full == call_user_function(fn, args, GlobalEnvId, Current)
                        part == call_user_function(fn, SubSeq(args, 1, k), GlobalEnvId, Current)
                        rest == call_user_function(part.val, SubSeq(args, k + 1, n),
                                                   GlobalEnvId, part.st)
                    IN  /\ part.err = ""
                        /\ part.val.kind = "Function"
                        /\ Len(part.val.parameters) = n - k
                        /\ SameOutcome(rest, full)

(***************************************************************************)
(* Programs over threading and composition.                                *)
(***************************************************************************)
\* (|a, b| a + b + k)(1): a user function given the first of its arguments
AddWithK == Function(<<"a", "b">>, <<Infix("+", Infix("+", Id("a"), Id("b")), Id("k"))>>)
LetP == Statement(Let("p", Call(AddWithK, <<IntLit(1)>>)))
LetI == Statement(Let("i", Function(<<"v">>, <<Infix("+", Id("v"), IntLit(1))>>)))

\* The expression in the body of a function whose parameter k is given 5.
InFunctionBody(expr) == Call(Function(<<"k">>, <<expr>>), <<IntLit(5)>>)

ThreadPI == FunctionThread(IntLit(2), <<Id("p"), Id("i")>>)
CallPI == Call(Id("i"), <<Call(Id("p"), <<IntLit(2)>>)>>)
ComposePII == Call(FunctionComposition(<<Id("p"), Id("i"), Id("i")>>), <<IntLit(2)>>)

LibPipes ==
    { LetP, LetI,
      Statement(Let("k", IntLit(100))),
      Statement(ThreadPI),
      Statement(CallPI),
      Statement(ComposePII),
      Statement(InFunctionBody(ThreadPI)),
      Statement(InFunctionBody(CallPI)),
      Statement(InFunctionBody(ComposePII)),
      Malformed("Unexpected end of input") }

InitPipes == InitWith(Programs(LibPipes))
SpecPipes == InitPipes /\ [][Next]_vars

\* The callables tried as f, g and h: the user functions the program has
\* bound, and the builtins first and size.
PipeNames == {n \in GlobalNames \cap {"p", "i", "first", "size"} : IsCallable(GlobalValue(n))}
PipeInputs == {IntLit(1), IntLit(2), ListLit(<<IntLit(3)>>)}

\* The expression evaluated at top level (body = FALSE) or in a function body.
Scoped(expr, body) ==
    evaluate_expression(IF body THEN InFunctionBody(expr) ELSE expr, GlobalEnvId, Current)

\* C7: for any value x and callables f and g, at top level and in a function
\* body, x |> f |> g yields the same value or the same error as g(f(x)),
\* also when f or g is a partially applied user function.
C7_ThreadingIsNestedCall ==
    stage = "eval" =>
        \A f \in PipeNames, g \in PipeNames, x \in PipeInputs, body \in BOOLEAN :
            SameOutcome(Scoped(FunctionThread(x, <<Id(f), Id(g)>>), body),
                        Scoped(Call(Id(g), <<Call(Id(f), <<x>>)>>), body))

\* C8: composition is associative and left-to-right: for callables f, g, h
\* and any x, ((f >> g) >> h)(x), (f >> (g >> h))(x) and h(g(f(x))) yield
\* the same value or the same error.
C8_CompositionIsNestedCall ==
    stage = "eval" =>
        \A f \in PipeNames, g \in PipeNames, h \in PipeNames,
           x \in PipeInputs, body \in BOOLEAN :
            LET left == Call(FunctionComposition(
                                <<FunctionComposition(<<Id(f), Id(g)>>), Id(h)>>), <<x>>)
                right == Call(FunctionComposition(
                                <<Id(f), FunctionComposition(<<Id(g), Id(h)>>)>>), <<x>>)
                nested == Call(Id(h), <<Call(Id(g), <<Call(Id(f), <<x>>)>>)>>)
            IN  /\ SameOutcome(Scoped(left, body), Scoped(right, body))
                /\ SameOutcome(Scoped(left, body), Scoped(nested, body))

(***************************************************************************)
(* Programs that emit output and fail.                                     *)
(***************************************************************************)
DivideByZero == Infix("/", IntLit(1), IntLit(0))
Puts(e) == Call(Id("puts"), <<e>>)

PutsOne == Statement(Puts(IntLit(1)))
FailingStatement == Statement(DivideByZero)
FailingList == Statement(ListLit(<<Puts(IntLit(2)), DivideByZero, Puts(IntLit(3))>>))
FailingBody ==
    Statement(Call(Function(<< >>, <<Puts(IntLit(4)), DivideByZero, Puts(IntLit(5))>>), << >>))
LetX == Statement(MutableLet("x", IntLit(7)))
AssignX8 == Statement(Assignment("x", IntLit(8)))
AssignFailing == Statement(Assignment("x", DivideByZero))
PutsX == Statement(Puts(Id("x")))

LibErrors ==
    { PutsOne, FailingStatement, FailingList, FailingBody, LetX, AssignX8, AssignFailing,
      PutsX, Malformed("Unexpected end of input") }

Init == InitWith(Programs(LibErrors))
Spec == Init /\ [][Next]_vars

\* What each statement of LibErrors is to do, read off the language rules:
\* the text it emits before it fails or ends, the message it fails with (""
\* when it does not fail) and the integer x is bound to afterwards (x is a
\* record [bound, value]).
Unbound == [bound |-> FALSE, value |-> 0]
Bound(n) == [bound |-> TRUE, value |-> n]
NotFound(name) == "Identifier can not be found: " \o name

Expected(stmt, x) ==
    CASE stmt = PutsOne -> [emits |-> "1 \n", fails |-> "", x |-> x]
      [] stmt = FailingStatement -> [emits |-> "", fails |-> "Division by zero", x |-> x]
      [] stmt = FailingList -> [emits |-> "2 \n", fails |-> "Division by zero", x |-> x]
      [] stmt = FailingBody -> [emits |-> "4 \n", fails |-> "Division by zero", x |-> x]
      [] stmt = LetX -> [emits |-> "", fails |-> "", x |-> Bound(7)]
      [] stmt = AssignX8 ->
            IF x.bound THEN [emits |-> "", fails |-> "", x |-> Bound(8)]
            ELSE [emits |-> "", fails |-> NotFound("x"), x |-> x]
      [] stmt = AssignFailing -> [emits |-> "", fails |-> "Division by zero", x |-> x]
      [] stmt = PutsX ->
            IF x.bound THEN [emits |-> ToString(x.value) \o " \n", fails |-> "", x |-> x]
            ELSE [emits |-> "", fails |-> NotFound("x"), x |-> x]

\* The run of a program up to its first failing statement: `at` is that
\* statement's place (0 when none fails), `emitted` the text emitted up to
\* the failure, `message` the failure's message.
RECURSIVE ExpectedRun(_, _, _, _)
ExpectedRun(stmts, i, x, emitted) ==
    IF i > Len(stmts) THEN [at |-> 0, message |-> "", emitted |-> emitted, x |-> x]
    ELSE LET e == Expected(stmts[i], x)
         IN  IF e.fails # ""
             THEN [at |-> i, message |-> e.fails, emitted |-> emitted \o e.emits, x |-> x]
             ELSE ExpectedRun(stmts, i + 1, e.x, emitted \o e.emits)

ExpectedOf(stmts) == ExpectedRun(stmts, 1, Unbound, "")

\* C9: whenever a stage fails, parsing or evaluation, the returned text is
\* the output emitted so far followed by [Error] and the error message.
C9_FailureReturnsErrorLine ==
    (stage = "returned" /\ raised # "") =>
        LET emitted == IF pc = 0 THEN "" ELSE ExpectedOf(ast).emitted
        IN  returned = emitted \o "[Error] " \o raised

\* C10: a runtime error aborts evaluation at its first occurrence: the
\* program stops at the first failing statement, nothing after the failing
\* sub-expression emits, binds or assigns, and the returned text is exactly
\* the puts output emitted before the failure, in order, then the error line
\* and no final-value text; a program in which nothing fails raises nothing.
C10_AbortsAtFirstError ==
    (stage = "returned" /\ pc >= 1) =>
        LET e == ExpectedOf(ast) IN
        IF raised = "" THEN e.at = 0
        ELSE /\ pc = e.at
             /\ raised = e.message
             /\ returned = e.emitted \o "[Error] " \o e.message
             /\ ("x" \in GlobalNames) = e.x.bound
             /\ e.x.bound => GlobalValue("x") = ElfInteger(e.x.value)

\* puts(1); let mut x = 7; then the function body puts(4); 1 / 0; puts(5)
\* has failed: 1 and 4 were emitted, 5 was not, and x is still 7.
C10_FailedInsideBody ==
    /\ stage = "returned"
    /\ ast = <<PutsOne, LetX, FailingBody>>
    /\ raised = "Division by zero"
    /\ returned = "1 \n4 \n[Error] Division by zero"
    /\ GlobalValue("x") = ElfInteger(7)

(***************************************************************************)
(* Syntax errors: programs written as tokens, some of them broken.         *)
(***************************************************************************)
\* A token before the lexer has given it a position.
Word(type, value) == [type |-> type, value |-> value]

\* The tokens of words written one space apart, the first at `position`.
RECURSIVE Spaced(_, _)
Spaced(words, position) ==
    IF words = << >> THEN << >>
    ELSE <<Token(Head(words).type, Head(words).value, position)>>
         \o Spaced(Tail(words), position + Len(Head(words).value) + 1)

\* The program text that is the given words.
Written(words) == <<Text(Spaced(words, 0))>>

RECURSIVE Flatten(_)
Flatten(seqs) == IF seqs = << >> THEN << >> ELSE Head(seqs) \o Flatten(Tail(seqs))

Name(cs) == Word("ID", cs)
IntWord(n) == Word("INT", NatChars(n))
LParen == Word("LPAREN", <<"(">>)
RParen == Word("RPAREN", <<")">>)
LBracket == Word("LBRACKET", <<"[">>)
RBracket == Word("RBRACKET", <<"]">>)
RBrace == Word("RBRACE", <<"}">>)
CommaWord == Word("COMMA", <<",">>)
Semicolon == Word("SEMICOLON", <<";">>)
PlusWord == Word("PLUS", <<"+">>)
MinusWord == Word("MINUS", <<"-">>)
MultiplyWord == Word("MULTIPLY", <<"*">>)
DivideWord == Word("DIVIDE", <<"/">>)
AssignWord == Word("ASSIGN", <<"=">>)
LetWord == Word("LET", <<"l", "e", "t">>)
PutsWord == Name(<<"p", "u", "t", "s">>)

\* puts(n);
PutsStatement(n) == <<PutsWord, LParen, IntWord(n), RParen, Semicolon>>
\* y;        (no such name: a RuntimeError, not a SyntaxError)
UnboundStatement == <<Name(<<"y">>), Semicolon>>
\* puts(2
UnclosedCall == <<PutsWord, LParen, IntWord(2)>>
\* }
StrayBrace == <<RBrace>>
\* 1 +
DanglingPlus == <<IntWord(1), PlusWord>>
\* let = 3
LetWithoutName == <<LetWord, AssignWord, IntWord(3)>>
\* [1, 2
UnclosedList == <<LBracket, IntWord(1), CommaWord, IntWord(2)>>

LibSyntax ==
    {PutsStatement(1), PutsStatement(2), UnboundStatement, UnclosedCall, StrayBrace,
     DanglingPlus, LetWithoutName, UnclosedList}

InitSyntax == InitWith({Written(Flatten(p)) : p \in Programs(LibSyntax)})
SpecSyntax == InitSyntax /\ [][Next]_vars

\* C11: the whole source is parsed before any statement is evaluated: when
\* the parser raises a SyntaxError anywhere in the source, no statement is
\* ever evaluated, no Evaluator is made, nothing is written to the output
\* buffer, and the text returned is the parser's message alone.
C11_SyntaxErrorBeforeEvaluation ==
    Parser_parse(source).err # "" =>
        /\ stage # "eval"
        /\ pc = 0
        /\ ast = << >>
        /\ envs = << >>
        /\ output_buffer = << >>
        /\ stage = "returned" => returned = Parser_parse(source).err

\* puts(1); puts(2    -- a valid puts call, then a call that is never closed.
C11_SyntaxErrorAfterPuts ==
    /\ source = Written(PutsStatement(1) \o UnclosedCall)
    /\ stage = "returned"
    /\ returned = "Expected TokenType.RPAREN, got None"

(***************************************************************************)
(* Programs of set and dictionary literals, for their printed forms.       *)
(***************************************************************************)
\* #{1: 2, 1: 3}
TwiceKeyedLit == DictLit(<<Pair(IntLit(1), IntLit(2)), Pair(IntLit(1), IntLit(3))>>)

LibPrint ==
    << Statement(Let("s", SetLit(<<IntLit(3), IntLit(1), IntLit(2)>>))),
       Statement(Let("s", SetLit(<<StrLit(<<"b">>), NilLit, IntLit(1), StrLit(<<"a">>)>>))),
       Statement(Let("s", SetLit(<<ListLit(<<IntLit(2)>>), ListLit(<<IntLit(1)>>), IntLit(1)>>))),
       Statement(Let("d", DictLit(<<Pair(IntLit(2), StrLit(<<"b">>)),
                                    Pair(IntLit(1), StrLit(<<"a">>))>>))),
       Statement(Let("d", DictLit(<<Pair(StrLit(<<"k">>), IntLit(1)), Pair(NilLit, IntLit(2)),
                                    Pair(IntLit(1), StrLit(<<"k">>))>>))),
       Statement(Let("d", TwiceKeyedLit)),
       Statement(Let("e", SetLit(<<IntLit(1), EmptyDictLit>>))),
       Malformed("Unexpected end of input") >>

\* The initial state, for the program texts of at most MaxStmts statements
\* drawn from the sequence `library`.
InitOver(library) ==
    \E n \in 1..MaxStmts : \E p \in [1..n -> 1..Len(library)] :
        InitWith({[i \in 1..n |-> library[p[i]]]})

InitPrint == InitOver(LibPrint)
SpecPrint == InitPrint /\ [][Next]_vars

\* The literal with its elements (pairs) in the order p.
Permuted(lit, p) == [lit EXCEPT !.items = [i \in 1..Len(lit.items) |-> lit.items[p[i]]]]

\* The text the value of an expression prints as, evaluated in the current state.
PrintedForm(expr) ==
    LET r == evaluate_expression(expr, GlobalEnvId, Current) IN Repr(r.val, r.st.lists)

\* C12: the printed form of a Set or a Dictionary does not depend on
\* insertion order: whatever set or dictionary literal has just been bound
\* by a let, every permutation of its elements (its key, value pairs) prints
\* the same text.
C12_PrintIgnoresInsertionOrder ==
    (stage = "eval" /\ pc > 1 /\ ast[pc - 1].type = "Expression"
        /\ ast[pc - 1].value.type = "Let"
        /\ ast[pc - 1].value.value.type \in {"Set", "Dictionary"}) =>
        \A p \in Permutations(1..Len(ast[pc - 1].value.value.items)) :
            PrintedForm(Permuted(ast[pc - 1].value.value, p)) = Repr(last_result, lists)

(***************************************************************************)
(* Integer / Integer at the width of Python's numbers.  A Python int has   *)
(* any size and a Python float 53 significant bits, so the dividend is     *)
(* kept here as a sign and a magnitude in limbs (digits base LimbBase,     *)
(* least significant first, the top limb not zero); the divisor is small.  *)
(***************************************************************************)
LimbBits == 15
LimbBase == 2 ^ LimbBits
\* The significant bits of a Python float.
SignificandBits == 53
\* The divisors of the model lie within -MaxDivisor..MaxDivisor.
MaxDivisor == 7

\* An ElfInteger of any size.
WideInteger(negative, magnitude) ==
    [kind |-> "Integer", negative |-> negative /\ magnitude # << >>, magnitude |-> magnitude]

\* int.bit_length() of a small number and of a magnitude.
RECURSIVE BitLength(_)
BitLength(n) == IF n = 0 THEN 0 ELSE 1 + BitLength(n \div 2)
MagnitudeBitLength(limbs) ==
    IF limbs = << >> THEN 0
    ELSE LimbBits * (Len(limbs) - 1) + BitLength(limbs[Len(limbs)])

\* The magnitude without zero limbs at the top.
RECURSIVE Trimmed(_)
Trimmed(limbs) ==
    IF limbs = << >> \/ limbs[Len(limbs)] # 0 THEN limbs
    ELSE Trimmed(SubSeq(limbs, 1, Len(limbs) - 1))

\* Bit k (from 0) of a magnitude.
BitOf(limbs, k) ==
    IF k \div LimbBits >= Len(limbs) THEN 0
    ELSE (limbs[(k \div LimbBits) + 1] \div (2 ^ (k % LimbBits))) % 2

\* magnitude + n, for 0 <= n <= LimbBase.
RECURSIVE AddSmall(_, _)
AddSmall(limbs, n) ==
    IF n = 0 THEN limbs
    ELSE IF limbs = << >> THEN <<n % LimbBase>> \o AddSmall(<< >>, n \div LimbBase)
    ELSE <<(Head(limbs) + n) % LimbBase>>
         \o AddSmall(Tail(limbs), (Head(limbs) + n) \div LimbBase)

\* divmod(magnitude, d) for a small d > 0: the limbs from the top down, the
\* remainder carried into the next limb.
RECURSIVE DivideLimbs(_, _, _, _)
DivideLimbs(limbs, i, d, r) ==
    IF i = 0 THEN [quotient |-> << >>, remainder |-> r]
    ELSE LET below == DivideLimbs(limbs, i - 1, d, (r * LimbBase + limbs[i]) % d)
         IN  [quotient |-> Append(below.quotient, (r * LimbBase + limbs[i]) \div d),
              remainder |-> below.remainder]
DivMod(limbs, d) ==
    LET qr == DivideLimbs(limbs, Len(limbs), d, 0)
    IN  [quotient |-> Trimmed(qr.quotient), remainder |-> qr.remainder]

\* abs(a) // abs(b) with the sign of a * b: the quotient truncated toward zero.
TruncatedQuotient(a, b) ==
    WideInteger(a.negative # (b < 0), DivMod(a.magnitude, Abs(b)).quotient)

\* int(x) of the float x = a / b, for magnitudes: Python's true division
\* gives the float nearest to the exact quotient q + r / d, ties to the even
\* significand, and int() drops what is left of a fraction.
\*  - q has more than SignificandBits bits: the float is a multiple of
\*    2 ^ drop, q rounded at that place (r # 0 breaks a tie upwards);
\*  - otherwise the float keeps `places` bits of the fraction r / d, and
\*    reaches q + 1 when r / d is at least 1 - 2 ^ -(places + 1).
FloatQuotient(limbs, d) ==
    LET qr == DivMod(limbs, d)
        q == qr.quotient
        r == qr.remainder
        drop == MagnitudeBitLength(q) - SignificandBits
        places == SignificandBits - MagnitudeBitLength(q)
        low == IF q = << >> THEN 0 ELSE q[1] % (2 ^ drop)
        half == 2 ^ (drop - 1)
    IN  IF drop > 0
        THEN LET floor == [q EXCEPT ![1] = @ - low]
                 up == \/ low > half
                       \/ low = half /\ (r # 0 \/ BitOf(q, drop) = 1)
             IN  IF up THEN AddSmall(floor, 2 ^ drop) ELSE Trimmed(floor)
        ELSE IF places = 0
        THEN IF 2 * r > d \/ (2 * r = d /\ BitOf(q, 0) = 1) THEN AddSmall(q, 1) ELSE q
        ELSE IF places < LimbBits /\ (d - r) * (2 ^ (places + 1)) <= d
        THEN AddSmall(q, 1)
        ELSE q

\* divide_values on two Integers: result = int(left.value / right.value).
divide_integers(a, b) ==
    IF b = 0 THEN [err |-> "Division by zero", val |-> ElfNil]
    ELSE [err |-> "", val |-> WideInteger(a.negative # (b < 0),
                                          FloatQuotient(a.magnitude, Abs(b)))]

\* The magnitude of a small number, and of 2 ^ e + k (e >= LimbBits, k < LimbBase).
RECURSIVE Limbs(_)
Limbs(n) == IF n = 0 THEN << >> ELSE <<n % LimbBase>> \o Limbs(n \div LimbBase)
TwoToPlus(e, k) ==
    [i \in 1..(e \div LimbBits) + 1 |->
        IF i = (e \div LimbBits) + 1 THEN 2 ^ (e % LimbBits)
        ELSE IF i = 1 THEN k ELSE 0]

\* The dividends of the model: the small ones, and the ones next to
\* 2 ^ SignificandBits, where the floats thin out to the even numbers first.
MaxSmall == 9
MaxOffset == 4
Dividends ==
    {WideInteger(negative, Limbs(n)) : negative \in BOOLEAN, n \in 0..MaxSmall}
    \cup {WideInteger(negative, TwoToPlus(e, k)) :
             negative \in BOOLEAN, e \in {SignificandBits - 1, SignificandBits},
             k \in 0..MaxOffset}
Divisors == -MaxDivisor..MaxDivisor

\* One run of the division: `a / b` on two Integers.
InitDivide ==
    /\ source \in {[a |-> a, b |-> b] : a \in Dividends, b \in Divisors}
    /\ ast = << >>
    /\ stage = "eval"
    /\ pc = 0
    /\ lists = << >>
    /\ envs = << >>
    /\ output_buffer = << >>
    /\ last_result = ElfNil
    /\ raised = ""
    /\ returned = ""
    /\ calls = << >>

DivideReturns ==
    /\ stage = "eval"
    /\ \E r \in {divide_integers(source.a, source.b)} :
          /\ r.err = ""
          /\ last_result' = r.val
    /\ stage' = "done"
    /\ UNCHANGED <<source, ast, pc, lists, envs, output_buffer, raised, returned, calls>>

DivideRaises ==
    /\ stage = "eval"
    /\ \E r \in {divide_integers(source.a, source.b)} :
          /\ r.err # ""
          /\ raised' = r.err
    /\ stage' = "failed"
    /\ UNCHANGED <<source, ast, pc, lists, envs, output_buffer, last_result, returned, calls>>

NextDivide == DivideReturns \/ DivideRaises
SpecDivide == InitDivide /\ [][NextDivide]_vars

\* C15: for all Integers a and b, a / b with b = 0 raises "Division by zero",
\* and otherwise is the Integer quotient truncated toward zero (so that
\* a - (a / b) * b is smaller in magnitude than b and zero or of a's sign).
C15_DivisionTruncatesTowardZero ==
    /\ stage = "failed" => source.b = 0 /\ raised = "Division by zero"
    /\ stage = "done" =>
          /\ source.b # 0
          /\ last_result = TruncatedQuotient(source.a, source.b)

(***************************************************************************)
(* Programs that compare two values: `let a = ..; let b = ..; a == b`.     *)
(***************************************************************************)
One == IntLit(1)
Two == IntLit(2)
LeftOperands ==
    << One, DecLit(<<"1", ".", "5">>), StrLit(<<"1">>), NilLit, BoolLit(TRUE),
       ListLit(<<One, Two>>), SetLit(<<One, Two>>), SetLit(<<One, One, Two>>),
       DictLit(<<Pair(One, Two), Pair(Two, One)>>), ListLit(<<SetLit(<<One, Two>>)>>) >>
RightOperands ==
    << One, DecLit(<<"1", ".", "0">>), DecLit(<<"1", ".", "5", "0">>), StrLit(<<"1">>), NilLit,
       ListLit(<<One, Two>>), ListLit(<<Two, One>>), SetLit(<<Two, One>>),
       SetLit(<<One, Two, Two>>), DictLit(<<Pair(Two, One), Pair(One, Two)>>),
       ListLit(<<SetLit(<<Two, One>>)>>) >>

AEqualsB == Statement(Infix("==", Id("a"), Id("b")))
ADiffersFromB == Statement(Infix("!=", Id("a"), Id("b")))

LibEquality ==
    [i \in 1..Len(LeftOperands) |-> Statement(Let("a", LeftOperands[i]))]
    \o [i \in 1..Len(RightOperands) |-> Statement(Let("b", RightOperands[i]))]
    \o <<AEqualsB, ADiffersFromB, Malformed("Unexpected end of input")>>

InitEquality == InitOver(LibEquality)
SpecEquality == InitEquality /\ [][Next]_vars

\* Structural equality as the language defines it, on values with their
\* contents: scalars by value, Lists item by item, Sets and Dictionaries as
\* multisets, that is, matched one to one by some rearrangement.
RECURSIVE StructurallyEqual(_, _)
StructurallyEqual(x, y) ==
    IF x.kind # y.kind THEN FALSE
    ELSE CASE x.kind = "Decimal" ->
                x.coefficient * 10 ^ y.places = y.coefficient * 10 ^ x.places
           [] x.kind = "List" ->
                /\ Len(x.items) = Len(y.items)
                /\ \A i \in 1..Len(x.items) : StructurallyEqual(x.items[i], y.items[i])
           [] x.kind = "Set" ->
                /\ Len(x.items) = Len(y.items)
                /\ \E p \in Permutations(1..Len(x.items)) :
                      \A i \in 1..Len(x.items) : StructurallyEqual(x.items[i], y.items[p[i]])
           [] x.kind = "Dictionary" ->
                /\ Len(x.items) = Len(y.items)
                /\ \E p \in Permutations(1..Len(x.items)) :
                      \A i \in 1..Len(x.items) :
                          /\ StructurallyEqual(x.items[i][1], y.items[p[i]][1])
                          /\ StructurallyEqual(x.items[i][2], y.items[p[i]][2])
           [] OTHER -> x = y

\* C13: `a == b` is true exactly when a and b are of the same kind and
\* structurally equal (Sets and Dictionaries as multisets, an Integer never
\* equal to a Decimal), and `a != b` is its negation.
C13_EqualityIsStructural ==
    /\ JustEvaluated(AEqualsB) =>
          last_result = ElfBoolean(StructurallyEqual(Deep(GlobalValue("a"), lists),
                                                     Deep(GlobalValue("b"), lists)))
    /\ JustEvaluated(ADiffersFromB) =>
          last_result = ElfBoolean(~StructurallyEqual(Deep(GlobalValue("a"), lists),
                                                      Deep(GlobalValue("b"), lists)))

(***************************************************************************)
(* Programs that do arithmetic on two numbers: `let a = ..; let b = ..;    *)
(* a + b`.                                                                 *)
(***************************************************************************)
NumberOperands ==
    << IntLit(0), IntLit(7), Prefix("-", Two), DecLit(<<"0", ".", "0">>),
       DecLit(<<"0", ".", "5">>), Prefix("-", DecLit(<<"2", ".", "2", "5">>)) >>

Arithmetic(op) == Statement(Infix(op, Id("a"), Id("b")))
ArithmeticOperators == <<"+", "-", "*", "/">>

LibArithmetic ==
    [i \in 1..Len(NumberOperands) |-> Statement(Let("a", NumberOperands[i]))]
    \o [i \in 1..Len(NumberOperands) |-> Statement(Let("b", NumberOperands[i]))]
    \o [i \in 1..Len(ArithmeticOperators) |-> Arithmetic(ArithmeticOperators[i])]
    \o <<Malformed("Unexpected end of input")>>

InitArithmetic == InitOver(LibArithmetic)
SpecArithmetic == InitArithmetic /\ [][Next]_vars

\* The statement at pc is a op b on two numbers already bound.
AtArithmetic ==
    /\ pc \in 1..Len(ast)
    /\ \E i \in 1..Len(ArithmeticOperators) : ast[pc] = Arithmetic(ArithmeticOperators[i])
    /\ {"a", "b"} \subseteq GlobalNames

OperatorWords == <<PlusWord, MinusWord, MultiplyWord, DivideWord>>
LeftWords ==
    <<IntWord(0), IntWord(7), Word("DEC", <<"1", ".", "5">>), Word("STR", <<"\"", "s", "\"">>)>>
RightWords == <<IntWord(0), IntWord(2)>>
FoldWord == Name(<<"f", "o", "l", "d">>)

InfixForm(op, a, b) == Written(<<a, op, b>>)
CallForm(op, a, b) == Written(<<op, LParen, a, CommaWord, b, RParen>>)
FoldForm(op, a, b) ==
    Written(<<FoldWord, LParen, a, CommaWord, op, CommaWord, LBracket, b, RBracket, RParen>>)

\* The three forms of every operator on every pair of operands.
OperatorForms(o, i, j) ==
    {InfixForm(OperatorWords[o], LeftWords[i], RightWords[j]),
     CallForm(OperatorWords[o], LeftWords[i], RightWords[j]),
     FoldForm(OperatorWords[o], LeftWords[i], RightWords[j])}
InitOperators ==
    InitWith(UNION {OperatorForms(o, i, j) :
        o \in 1..Len(OperatorWords), i \in 1..Len(LeftWords), j \in 1..Len(RightWords)})
SpecOperators == InitOperators /\ [][Next]_vars

\* C16: each of + - * / is a name for a two-argument callable with the
\* meaning of the infix operator: op(a, b) and fold(a, op, [b]) parse and
\* return what a op b returns, value or error.
C16_OperatorNamesAreCallable ==
    stage = "returned" =>
        \A o \in 1..Len(OperatorWords), i \in 1..Len(LeftWords), j \in 1..Len(RightWords) :
            source \in {CallForm(OperatorWords[o], LeftWords[i], RightWords[j]),
                        FoldForm(OperatorWords[o], LeftWords[i], RightWords[j])} =>
                returned = evaluate_program(InfixForm(OperatorWords[o], LeftWords[i], RightWords[j]))

(***************************************************************************)
(* Programs that fail on the kind of a value: `let a = ..; let b = ..;`    *)
(* and an operation on a and b.                                            *)
(***************************************************************************)
KindOperands ==
    << One, DecLit(<<"1", ".", "5">>), StrLit(<<"s">>), BoolLit(TRUE), NilLit,
       ListLit(<<One>>), SetLit(<<One>>), DictLit(<<Pair(One, Two)>>),
       Function(<<"x">>, <<Id("x")>>), Id("puts"), Call(Id("push"), <<One>>) >>
OtherOperands == << One, StrLit(<<"s">>), ListLit(<<One>>), Id("puts") >>
KindOperations ==
    << Infix("+", Id("a"), Id("b")), Infix("-", Id("a"), Id("b")),
       Infix("*", Id("b"), Id("a")), Infix("/", Id("a"), Id("b")),
       Infix("<", Id("a"), Id("b")), Prefix("-", Id("a")), Index(Id("a"), Id("b")),
       Index(Id("b"), Id("a")),
       Call(Id("map"), <<Id("a"), Id("b")>>), Call(Id("filter"), <<Id("a"), Id("b")>>),
       Call(Id("fold"), <<One, Id("a"), Id("b")>>), Call(Id("push"), <<One, Id("a")>>),
       Call(Id("assoc"), <<One, One, Id("a")>>), Call(Id("a"), <<One>>),
       FunctionComposition(<<Id("b"), Id("a")>>), FunctionThread(One, <<Id("a")>>) >>

LibKinds ==
    [i \in 1..Len(KindOperands) |-> Statement(Let("a", KindOperands[i]))]
    \o [i \in 1..Len(OtherOperands) |-> Statement(Let("b", OtherOperands[i]))]
    \o [i \in 1..Len(KindOperations) |-> Statement(KindOperations[i])]
    \o <<Malformed("Unexpected end of input")>>

InitKinds == InitOver(LibKinds)
SpecKinds == InitKinds /\ [][Next]_vars

\* The kind names a user is to see.
UserKinds ==
    {"Integer", "Decimal", "String", "Boolean", "Nil", "List", "Set", "Dictionary", "Function"}

\* The messages of the runtime errors that name a kind, with user-visible
\* kind names in every place.
KindMessages ==
    {"Unsupported operation: " \o k \o " " \o op \o " " \o l :
        k \in UserKinds, op \in {"+", "-", "*", "/"}, l \in UserKinds}
    \cup {"Cannot compare " \o k \o " with " \o l : k \in UserKinds, l \in UserKinds}
    \cup {container \o "[" \o k \o "]" :
            container \in {"Unable to perform index operation, found: String",
                           "Unable to perform index operation, found: List"},
            k \in UserKinds}
    \cup {start \o k :
            start \in {"Unsupported operation: -", "Cannot index into ", "Cannot push to ",
                       "Cannot assoc to ", "Cannot compose non-function: ",
                       "Cannot thread into non-function: ", "Expected a Function, found: "},
            k \in UserKinds}
    \cup {"Unexpected argument: " \o f \o "(" \o k \o ", " \o l \o ")" :
            f \in {"map", "filter"}, k \in UserKinds, l \in UserKinds}
    \cup {"Unexpected argument: fold(" \o k \o ", " \o l \o ", " \o m \o ")" :
            k \in UserKinds, l \in UserKinds, m \in UserKinds}

\* The messages that name no kind.
PlainMessages ==
    {"Division by zero", "Identifier can not be found: a", "Identifier can not be found: b"}

\* C17: every runtime error message that names the kind of a value uses
\* the user-visible kind names only, whatever the kind of the operand,
\* builtin functions and partially applied builtins included.
C17_MessagesNameUserKinds ==
    (stage = "returned" /\ raised # "" /\ pc >= 1) =>
        raised \in KindMessages \cup PlainMessages

(***************************************************************************)
(* evaluate_program called several times in one process.                   *)
(***************************************************************************)
LetMutX == Statement(MutableLet("x", One))
AssignX5 == Statement(Assignment("x", IntLit(5)))
RunPrograms ==
    << <<LetMutX, AssignX5, PutsX>>,
       <<PutsX>>,
       <<AssignX5>>,
       <<LetMutX, Statement(Id("x"))>>,
       <<PutsOne, Statement(Id("y"))>>,
       <<PutsOne, Malformed("Unexpected end of input")>> >>

InitRuns == InitWith({RunPrograms[i] : i \in 1..Len(RunPrograms)})
NextRuns == Next \/ \E i \in 1..Len(RunPrograms) : CallAgain(RunPrograms[i])
SpecRuns == InitRuns /\ [][NextRuns]_vars

\* C18: evaluate_program is a function of its source text: a call returns
\* what a first call on that text returns, whatever was run before; a text
\* run before returns the same text again; and every call starts from a
\* global environment with the builtins only, with no output.
C18_RunsAreIndependent ==
    /\ stage = "returned" =>
          /\ returned = evaluate_program(source)
          /\ \A i \in 1..Len(calls) : calls[i].source = source => calls[i].returned = returned
    /\ (stage = "eval" /\ pc = 1) =>
          /\ envs = <<Evaluator_init>>
          /\ lists = << >>
          /\ output_buffer = << >>

\* puts(x) has been run after a program that bound x and printed it.
C18_ReadsAfterEarlierBinding ==
    /\ stage = "returned"
    /\ Len(calls) = 1
    /\ calls[1] = [source |-> RunPrograms[1], returned |-> "5 \nnil"]
    /\ source = <<PutsX>>
    /\ returned = "[Error] Identifier can not be found: x"

(***************************************************************************)
(* Programs over the scope of function bodies.                             *)
(***************************************************************************)
\* let g = |a| { let t = a; t }: the body binds a name of its own
LetBodyBinds ==
    Statement(Let("g", Function(<<"a">>, <<Let("t", Id("a")), Id("t")>>)))
\* let r = |a| t: t is free in the body
LetReadsFree == Statement(Let("r", Function(<<"a">>, <<Id("t")>>)))
\* let c = |a| { if a == 1 { let t = 5; t } else { t } }: only the
\* invocation with a = 1 binds the t that the body reads
LetBindsOnOne ==
    Statement(Let("c", Function(<<"a">>,
        <<If(Infix("==", Id("a"), One),
             Block(<<Let("t", IntLit(5)), Id("t")>>), Block(<<Id("t")>>))>>)))

\* The call written inside the body of a function with locals z and t, which
\* is invoked at once: (|z, t| expr)(7, 8).
FromCaller(expr) == Call(Function(<<"z", "t">>, <<expr>>), <<IntLit(7), IntLit(8)>>)

LibScope ==
    << LetF, LetQ, LetBodyBinds, LetReadsFree, LetBindsOnOne,
       Statement(Let("t", IntLit(3))),
       Statement(Call(Id("g"), <<One>>)),
       Statement(Call(Id("c"), <<One>>)),
       Statement(FromCaller(Call(Id("q"), <<Two>>))),
       Statement(FromCaller(Call(Id("r"), <<One>>))),
       Malformed("Unexpected end of input") >>

InitScope == InitOver(LibScope)
SpecScope == InitScope /\ [][Next]_vars

\* The argument literals tried on a function of n parameters.
SampleLiterals(n) == [1..n -> {One, Two}]

\* The variables of the invoking function body once expr has run inside it:
\* the environment (|z, t| expr)(7, 8) makes in the current state.
CallerVariables(expr) ==
    evaluate_expression(FromCaller(expr), GlobalEnvId, Current).st.envs[NewEnvId(Current)].variables

\* The global name bound to a user function, called with args from top level
\* and from inside a function body with locals z and t, agrees with lexical
\* scope: both calls have the same outcome, the call leaves the variables of
\* its caller as they were, and a second invocation has the outcome of the
\* first one made in its place.
LexicallyScoped(name, args) ==
    LET call == Call(Id(name), args)
        top == evaluate_expression(call, GlobalEnvId, Current)
        inner == evaluate_expression(FromCaller(call), GlobalEnvId, Current)
    IN  /\ SameOutcome(top, inner)
        /\ top.st.envs[GlobalEnvId] = envs[GlobalEnvId]
        /\ CallerVariables(call) = ("z" :> ElfInteger(7)) @@ ("t" :> ElfInteger(8))
        /\ \A earlier \in SampleLiterals(Len(args)) :
               SameOutcome(top, evaluate_expression(call, GlobalEnvId,
                   evaluate_expression(Call(Id(name), earlier), GlobalEnvId, Current).st))

\* C19: function bodies are lexically scoped: an invocation of a user
\* function, made by a full call or through partial application, resolves the
\* free names of the body where the function literal was evaluated and never
\* in the caller's locals, and the let-bindings of the body are seen neither
\* by the caller after the return nor by a later invocation.
C19_BodiesAreLexicallyScoped ==
    stage = "eval" =>
        \A name \in GlobalNames :
            GlobalValue(name).kind = "Function" =>
                \A args \in SampleLiterals(Len(GlobalValue(name).parameters)) :
                    LexicallyScoped(name, args)

(***************************************************************************)
(* Programs over partially applied builtins.                               *)
(***************************************************************************)
OneTwoLit == ListLit(<<One, Two>>)
\* let a = assoc(1), then let b = a(2): a partial application of a partial one
LetAssocOne == Statement(Let("a", Call(Id("assoc"), <<One>>)))
LetAssocOneTwo == Statement(Let("b", Call(Id("a"), <<Two>>)))
AssocInto == Statement(Call(Id("b"), <<EmptyDictLit>>))
AssocThree == Statement(Call(Id("a"), <<IntLit(3), EmptyDictLit>>))

LibBuiltins ==
    << LetAssocOne, LetAssocOneTwo, AssocInto,
       Statement(Let("p", Call(Id("push"), <<One>>))),
       Statement(Let("s", Call(Id("fold"), <<IntLit(0), Id("+")>>))),
       Statement(Call(Id("s"), <<OneTwoLit>>)),
       Malformed("Unexpected end of input") >>

InitBuiltins == InitOver(LibBuiltins)
SpecBuiltins == InitBuiltins /\ [][Next]_vars

\* The longest argument list tried on a builtin.
MaxArgs == 3
\* The argument lists tried on a builtin.
BuiltinArgs == UNION {[1..m -> {OneTwoLit, EmptyDictLit}] : m \in 0..MaxArgs}

\* The builtin bound to the global `name` and holding j arguments, called with
\* the m arguments args: short of the arity the call yields a new builtin of
\* the same name and arity that holds the j + m arguments in order, otherwise
\* what the primitive yields on the first `arity` of them; the call leaves
\* every variable as it was, the same call made again has the same outcome,
\* and handing over the arguments in two calls has the outcome of one call.
PersistentAndAdditive(name, args) ==
    LET held == GlobalValue(name)
        j == Len(held.partial_args)
        m == Len(args)
        given == evaluate_all(args, GlobalEnvId, Current)
        all_args == held.partial_args \o given.val
        call == evaluate_expression(Call(Id(name), args), GlobalEnvId, Current)
        again == evaluate_expression(Call(Id(name), args), GlobalEnvId, call.st)
    IN  /\ j + m < held.arity =>
              /\ call.err = ""
              /\ Deep(call.val, call.st.lists) =
                     Deep(ElfBuiltinFunction(held.name, held.func, held.arity, all_args),
                          given.st.lists)
        /\ j + m >= held.arity =>
              SameOutcome(call, call_native(held.func, SubSeq(all_args, 1, held.arity),
                                            given.st))
        /\ call.st.envs = envs
        /\ SameOutcome(call, again)
        /\ \A k \in 1..(m - 1) :
              j + k < held.arity =>
                  SameOutcome(call,
                      evaluate_expression(Call(Call(Id(name), SubSeq(args, 1, k)),
                                               SubSeq(args, k + 1, m)),
                                          GlobalEnvId, Current))

\* C20: partial application of a builtin is persistent and additive: a
\* builtin holding j arguments, called with m more, yields a new builtin of
\* the same arity holding the j + m arguments when these are fewer than the
\* arity and otherwise the primitive's result on the first `arity` of them;
\* the builtin called is unchanged and can be applied again with independent
\* results, and p(a)(b) = p(a, b).
C20_BuiltinPartialsPersist ==
    stage = "eval" =>
        \A name \in GlobalNames :
            (GlobalValue(name).kind = "BuiltinFunction" /\ GlobalValue(name).arity # -1) =>
                \A args \in BuiltinArgs : PersistentAndAdditive(name, args)

\* let a = assoc(1); let b = a(2); b(#{}) has run: b holds two arguments and
\* a still one, the call yielded #{1: 2}, and a(3, #{}) still yields #{1: 3}.
C20_AppliedTwiceFromOneHolder ==
    /\ stage = "eval" /\ pc = 4
    /\ ast = <<LetAssocOne, LetAssocOneTwo, AssocInto>>
    /\ Repr(GlobalValue("a"), lists) = "<partial assoc(1/3)>"
    /\ Repr(GlobalValue("b"), lists) = "<partial assoc(2/3)>"
    /\ Repr(last_result, lists) = "#{1: 2}"
    /\ PrintedForm(AssocThree.value) = "#{1: 3}"

(***************************************************************************)
(* Programs over the order of evaluation in a call.                        *)
(***************************************************************************)
\* let f = |a, b| { puts(9) }
LetPutsNine == Statement(Let("f", Function(<<"a", "b">>, <<Puts(IntLit(9))>>)))
\* (|| { puts(0); f })(): a callee expression that prints before it yields f
PrintingCallee == Call(Function(<< >>, <<Puts(IntLit(0)), Id("f")>>), << >>)
\* (|| { x = x + 1 })(): an argument that assigns to the global x
Bump == Call(Function(<< >>, <<Assignment("x", Infix("+", Id("x"), One))>>), << >>)

Callees == <<Id("f"), PrintingCallee, IntLit(5), NilLit, StrLit(<<"s">>)>>
Arguments == <<Puts(One), Puts(Id("x")), Bump, IntLit(7)>>

\* let mut x = 1; let f = |a, b| { puts(9) }; callee(argument, argument)
InitCalls ==
    \/ \E c \in 1..Len(Callees) : \E i, j \in 1..Len(Arguments) :
           InitWith({<<LetMutX, LetPutsNine,
                       Statement(Call(Callees[c], <<Arguments[i], Arguments[j]>>))>>})
    \/ InitWith({<<LetMutX, Malformed("Unexpected end of input")>>})
SpecCalls == InitCalls /\ [][Next]_vars

\* The line puts writes for one Integer.
PutsLine(n) == Repr(ElfInteger(n), << >>) \o " \n"

\* The argument is puts(...) / is the assigning call.
IsPuts(arg) == arg.type = "Call" /\ arg.function.type = "Identifier"
IsBump(arg) == arg.type = "Call" /\ arg.function.type = "Function"

\* What the argument does when x holds n: the text it writes and the value
\* it leaves in x.
ArgumentWrites(arg, n) ==
    IF ~IsPuts(arg) THEN ""
    ELSE IF arg.arguments[1].type = "Identifier" THEN PutsLine(n)
    ELSE PutsLine(arg.arguments[1].value)
ArgumentLeaves(arg, n) == IF IsBump(arg) THEN n + 1 ELSE n

\* The kind of a callee that is no function, "" for one that is.
CalleeKind(callee) ==
    IF callee.type \in {"Integer", "Nil", "String"} THEN callee.type ELSE ""

\* The text a call writes by the rule: the callee's, the first argument's,
\* the second argument's, and then the body's line or the error line.
ExpectedOfCall(call) ==
    LET first == call.arguments[1]
        second == call.arguments[2]
        x1 == ArgumentLeaves(first, 1)
    IN  (IF call.function.type = "Call" THEN PutsLine(0) ELSE "")
        \o ArgumentWrites(first, 1)
        \o ArgumentWrites(second, x1)
        \o (IF CalleeKind(call.function) = "" THEN PutsLine(9)
            ELSE "[Error] Expected a Function, found: " \o CalleeKind(call.function))

\* The call statement of the program has been evaluated or has raised.
CallIsOver ==
    /\ Len(ast) = 3
    /\ \/ stage = "eval" /\ pc = 4
       \/ stage = "returned" /\ raised # "" /\ pc = 3

\* C21: a call evaluates its callee expression, then its arguments from left
\* to right, and only then looks at the callee's kind: what the arguments
\* print and assign happens in that order before the body runs, and also
\* before Expected a Function, found: <Kind> is raised.
C21_CalleeThenArgumentsThenDispatch ==
    CallIsOver =>
        LET call == ast[3].value IN
        /\ JoinText(output_buffer) = ExpectedOfCall(call)
        /\ raised = (IF CalleeKind(call.function) = "" THEN ""
                     ELSE "Expected a Function, found: " \o CalleeKind(call.function))
        /\ GlobalValue("x") =
               ElfInteger(ArgumentLeaves(call.arguments[2],
                                         ArgumentLeaves(call.arguments[1], 1)))

\* 5((|| { x = x + 1 })(), puts(x)) has raised: x was assigned 2 and then
\* printed before the callee was found to be an Integer.
C21_ArgumentsRanBeforeNonFunction ==
    /\ stage = "returned"
    /\ Len(ast) = 3
    /\ ast[3] = Statement(Call(IntLit(5), <<Bump, Puts(Id("x"))>>))
    /\ returned = "2 \n[Error] Expected a Function, found: Integer"
    /\ GlobalValue("x") = ElfInteger(2)

(***************************************************************************)
(* Programs over closures that assign to a captured variable.              *)
(***************************************************************************)
\* || { c = c + 1 } and || c
Increment == Function(<< >>, <<Assignment("c", Infix("+", Id("c"), One))>>)
Reader == Function(<< >>, <<Id("c")>>)

\* let mut c = 0; let inc = || { c = c + 1 }; let get = || c
TopLevelCell ==
    <<Statement(MutableLet("c", IntLit(0))), Statement(Let("inc", Increment)),
      Statement(Let("get", Reader))>>
\* inc(), get(), c, and c(), which raises
TopLevelSteps ==
    <<Call(Id("inc"), << >>), Call(Id("get"), << >>), Id("c"), Call(Id("c"), << >>)>>

\* let make = || { let mut c = 0; [|| { c = c + 1 }, || c] };
\* let a = make(); let b = make()
MadeCells ==
    <<Statement(Let("make", Function(<< >>, <<MutableLet("c", IntLit(0)),
                                               ListLit(<<Increment, Reader>>)>>))),
      Statement(Let("a", Call(Id("make"), << >>))),
      Statement(Let("b", Call(Id("make"), << >>)))>>
\* first(pair)() increments the cell of the pair, first(rest(pair))() reads it
IncrementOf(pair) == Call(Call(Id("first"), <<Id(pair)>>), << >>)
ReaderOf(pair) ==
    Call(Call(Id("first"), <<Call(Id("rest"), <<Id(pair)>>)>>), << >>)
MadeSteps == <<IncrementOf("a"), ReaderOf("a"), IncrementOf("b"), ReaderOf("b")>>

\* The most calls and reads a program makes after its bindings.
MaxSteps == 3

\* The program `bindings` followed by the steps chosen by p.
WithSteps(bindings, steps, p) ==
    bindings \o [i \in 1..Len(p) |-> Statement(steps[p[i]])]

InitCells ==
    \/ \E n \in 1..MaxSteps : \E p \in [1..n -> 1..Len(TopLevelSteps)] :
           InitWith({WithSteps(TopLevelCell, TopLevelSteps, p)})
    \/ \E n \in 1..MaxSteps : \E p \in [1..n -> 1..Len(MadeSteps)] :
           InitWith({WithSteps(MadeCells, MadeSteps, p)})
    \/ InitWith({<<Statement(MutableLet("c", IntLit(0))),
                   Malformed("Unexpected end of input")>>})
SpecCells == InitCells /\ [][Next]_vars

\* How many of the statements are the expression `step`.
RECURSIVE CountOf(_, _)
CountOf(statements, step) ==
    IF statements = << >> THEN 0
    ELSE (IF Head(statements) = Statement(step) THEN 1 ELSE 0)
         + CountOf(Tail(statements), step)

\* The Integer an expression evaluates to in the current state.
ReadNow(expr) == evaluate_expression(expr, GlobalEnvId, Current).val

TracedMinus ==
    Function(<<"acc", "e">>, <<Call(Id("puts"), <<Id("acc"), Id("e")>>),
                               Infix("-", Id("acc"), Id("e"))>>)
\* |e| { puts(e); e }
TracedSelf == Function(<<"e">>, <<Puts(Id("e")), Id("e")>>)
\* |e| { puts(e); e * 2 }
TracedDouble == Function(<<"e">>, <<Puts(Id("e")), Infix("*", Id("e"), Two)>>)

\* The most elements of a list handed to fold, filter or map.
MaxItems == 3
\* The Integers folded and mapped, and the start of the fold.
Numbers == <<1, 2, 5>>
Initial == IntLit(10)
\* The elements filtered: a false and a true one of every kind.
Filtered ==
    << IntLit(0), One, StrLit(<< >>), StrLit(<<"a">>), NilLit, BoolLit(TRUE), BoolLit(FALSE),
       ListLit(<< >>), ListLit(<<IntLit(0)>>), DecLit(<<"1", ".", "5">>),
       SetLit(<< >>), EmptyDictLit, Id("puts") >>

\* The list literal of the elements pool[p[1]], pool[p[2]], ...
Chosen(pool, p) == ListLit([i \in 1..Len(p) |-> pool[p[i]]])
NumberLits == [i \in 1..Len(Numbers) |-> IntLit(Numbers[i])]

InitFolds ==
    \/ \E n \in 0..MaxItems : \E p \in [1..n -> 1..Len(Numbers)] :
       \E fn \in 1..2 :
           InitWith({<<Statement(Call(Id("fold"),
                          <<Initial, <<TracedMinus, Id("+")>>[fn],
                            Chosen(NumberLits, p)>>))>>})
    \/ \E n \in 0..MaxItems : \E p \in [1..n -> 1..Len(Numbers)] :
           InitWith({<<Statement(Call(Id("map"), <<TracedDouble, Chosen(NumberLits, p)>>))>>})
    \/ \E n \in 0..MaxItems : \E p \in [1..n -> 1..Len(Filtered)] :
           InitWith({<<Statement(Call(Id("filter"), <<TracedSelf, Chosen(Filtered, p)>>))>>})
    \/ InitWith({<<Statement(Call(Id("fold"), <<Initial, Id("+"), One>>))>>})
    \/ InitWith({<<Malformed("Unexpected end of input")>>})
SpecFolds == InitFolds /\ [][Next]_vars

\* Truthiness of a literal by the rule: a Boolean is itself, nil is false, a
\* number is true unless zero, a String or a collection unless empty, a
\* function is true.
TruthyLiteral(lit) ==
    CASE lit.type = "Boolean" -> lit.value
      [] lit.type = "Nil" -> FALSE
      [] lit.type = "Integer" -> lit.value # 0
      [] lit.type = "Decimal" -> \E i \in 1..Len(lit.value) : lit.value[i] \notin {"0", "."}
      [] lit.type = "String" -> lit.value # << >>
      [] lit.type \in {"List", "Set", "Dictionary"} -> lit.items # << >>
      [] OTHER -> TRUE

\* The accumulator after the first i of the numbers, by subtraction and by sum.
RECURSIVE Accumulated(_, _, _)
Accumulated(items, i, minus) ==
    IF i = 0 THEN Initial.value
    ELSE IF minus THEN Accumulated(items, i - 1, minus) - items[i].value
    ELSE Accumulated(items, i - 1, minus) + items[i].value

\* The lines the traced functions write over the elements, in list order.
RECURSIVE FoldLines(_, _)
FoldLines(items, i) ==
    IF i > Len(items) THEN ""
    ELSE Repr(ElfInteger(Accumulated(items, i - 1, TRUE)), << >>) \o " "
         \o PutsLine(items[i].value) \o FoldLines(items, i + 1)
RECURSIVE ElementLines(_)
ElementLines(items) ==
    IF items = << >> THEN ""
    ELSE PrintedForm(Head(items)) \o " \n" \o ElementLines(Tail(items))

\* The elements kept by the rule, in their order.
RECURSIVE Kept(_)
Kept(items) ==
    IF items = << >> THEN << >>
    ELSE (IF TruthyLiteral(Head(items)) THEN <<Head(items)>> ELSE << >>) \o Kept(Tail(items))

\* The statement fold / filter / map of the program has returned.
Returned(name) ==
    /\ stage = "eval" /\ pc = 2
    /\ ast[1].value.function.name = name

\* C23: fold(initial, fn, list) calls fn once per element, in list order, as
\* fn(acc, element) with acc starting at initial and replaced by each result,
\* and returns the last acc (initial for an empty list); filter(pred, list)
\* returns, in their order, exactly the elements whose result is truthy;
\* map(fn, list) returns a List of the same length with the results in order.
C23_FoldFilterMap ==
    /\ Returned("fold") =>
          LET items == ast[1].value.arguments[3].items
              traced == ast[1].value.arguments[2].type = "Function"
          IN  /\ last_result = ElfInteger(Accumulated(items, Len(items), traced))
              /\ JoinText(output_buffer) = (IF traced THEN FoldLines(items, 1) ELSE "")
    /\ Returned("filter") =>
          LET items == ast[1].value.arguments[2].items
          IN  /\ last_result.kind = "List"
              /\ Repr(last_result, lists) = PrintedForm(ListLit(Kept(items)))
              /\ JoinText(output_buffer) = ElementLines(items)
    /\ Returned("map") =>
          LET items == ast[1].value.arguments[2].items
          IN  /\ last_result.kind = "List"
              /\ Len(lists[last_result.items]) = Len(items)
              /\ \A i \in 1..Len(items) :
                     lists[last_result.items][i] = ElfInteger(2 * items[i].value)
              /\ JoinText(output_buffer) = ElementLines(items)

\* fold(10, |acc, e| { puts(acc, e); acc - e }, [1, 2, 5]) has returned 2
\* after the lines 10 1, 9 2 and 7 5.
C23_FoldedInListOrder ==
    /\ Returned("fold")
    /\ ast[1].value.arguments[2] = TracedMinus
    /\ ast[1].value.arguments[3] = ListLit(<<IntLit(1), IntLit(2), IntLit(5)>>)
    /\ last_result = ElfInteger(2)
    /\ JoinText(output_buffer) = "10 1 \n9 2 \n7 5 \n"

(***************************************************************************)
(* lexer.py: the lexer, over the characters of the source.  `src` is       *)
(* Lexer.source as a sequence of characters and `p` is Lexer.position + 1; *)
(* current_char is src[p], and None ("" here) once p is past the end.      *)
(***************************************************************************)
CharAt(src, p) == IF p <= Len(src) THEN src[p] ELSE ""

\* str.isdigit, str.isalpha and str.isalnum on the characters of the model
Letters ==
    {"a", "b", "c", "d", "e", "f", "g", "h", "i", "j", "k", "l", "m", "n", "o", "p", "q",
     "r", "s", "t", "u", "v", "w", "x", "y", "z"}
IsDigit(c) == \E i \in 1..Len(Digits) : Digits[i] = c
IsAlpha(c) == c \in Letters
IsAlnum(c) == IsAlpha(c) \/ IsDigit(c)

\* What one round of the loop of get_next_token yields: the token it returns
\* (None when the round only skips) and the position it leaves.
Lexed(token, p) == [token |-> token, pos |-> p]
Skipped(p) == [token |-> NoToken, pos |-> p]

\* skip_whitespace(): the position of the first character that is no blank.
RECURSIVE skip_whitespace(_, _)
skip_whitespace(src, p) ==
    IF CharAt(src, p) \in {" ", "\t"} THEN skip_whitespace(src, p + 1) ELSE p

\* The while loop of read_number: where it stops, and has_decimal.
RECURSIVE number_end(_, _, _)
number_end(src, p, has_decimal) ==
    LET c == CharAt(src, p) IN
    IF c # "" /\ (IsDigit(c) \/ c \in {".", "_"})
    THEN IF c = "." /\ has_decimal THEN [pos |-> p, has_decimal |-> TRUE]
         ELSE number_end(src, p + 1, has_decimal \/ c = ".")
    ELSE [pos |-> p, has_decimal |-> has_decimal]

\* read_number()
read_number(src, p) ==
    LET e == number_end(src, p, FALSE)
    IN  Lexed(Token(IF e.has_decimal THEN "DEC" ELSE "INT", SubSeq(src, p, e.pos - 1), p - 1),
              e.pos)

\* The while loop of read_string: the position of the closing quote, or of
\* the end of the source.
RECURSIVE string_end(_, _)
string_end(src, p) ==
    LET c == CharAt(src, p) IN
    IF c = "" \/ c = "\"" THEN p
    ELSE IF c = "\\"
    THEN IF CharAt(src, p + 1) # "" THEN string_end(src, p + 2) ELSE p + 1
    ELSE string_end(src, p + 1)

\* read_string(): the token holds the quotes.
read_string(src, p) ==
    LET e == string_end(src, p + 1)
        after == IF CharAt(src, e) = "\"" THEN e + 1 ELSE e
    IN  Lexed(Token("STR", SubSeq(src, p, after - 1), p - 1), after)

\* The while loop of read_identifier.
RECURSIVE identifier_end(_, _)
identifier_end(src, p) ==
    LET c == CharAt(src, p) IN
    IF c # "" /\ (IsAlnum(c) \/ c = "_") THEN identifier_end(src, p + 1) ELSE p

Keyword(value) ==
    CASE value = <<"l", "e", "t">> -> "LET"
      [] value = <<"m", "u", "t">> -> "MUT"
      [] value = <<"i", "f">> -> "IF"
      [] value = <<"e", "l", "s", "e">> -> "ELSE"
      [] value = <<"t", "r", "u", "e">> -> "TRUE"
      [] value = <<"f", "a", "l", "s", "e">> -> "FALSE"
      [] value = <<"n", "i", "l">> -> "NIL"
      [] OTHER -> "ID"

\* read_identifier()
read_identifier(src, p) ==
    LET e == identifier_end(src, p)
    IN  Lexed(Token(Keyword(SubSeq(src, p, e - 1)), SubSeq(src, p, e - 1), p - 1), e)

\* read_comment(): up to the end of the line.
RECURSIVE comment_end(_, _)
comment_end(src, p) ==
    IF CharAt(src, p) \notin {"", "\n"} THEN comment_end(src, p + 1) ELSE p
read_comment(src, p) ==
    LET e == comment_end(src, p) IN Lexed(Token("CMT", SubSeq(src, p, e - 1), p - 1), e)

\* The two-character operators in the order get_next_token tries them, and
\* the single-character tokens; "" for none.
TwoCharacterToken(c, n) ==
    IF c = "=" /\ n = "=" THEN "EQ"
    ELSE IF c = "!" /\ n = "=" THEN "NE"
    ELSE IF c = ">" /\ n = "=" THEN "GE"
    ELSE IF c = "<" /\ n = "=" THEN "LE"
    ELSE IF c = "&" /\ n = "&" THEN "AND"
    ELSE IF c = "|" /\ n = "|" THEN "OR"
    ELSE IF c = "|" /\ n = ">" THEN "PIPE_OP"
    ELSE IF c = ">" /\ n = ">" THEN "COMPOSE"
    ELSE IF c = "#" /\ n = "{" THEN "DICT_START"
    ELSE ""
single_char_tokens ==
    ("+" :> "PLUS") @@ ("-" :> "MINUS") @@ ("*" :> "MULTIPLY") @@ ("/" :> "DIVIDE")
    @@ ("=" :> "ASSIGN") @@ (">" :> "GT") @@ ("<" :> "LT") @@ ("{" :> "LBRACE")
    @@ ("}" :> "RBRACE") @@ ("[" :> "LBRACKET") @@ ("]" :> "RBRACKET")
    @@ (";" :> "SEMICOLON") @@ ("(" :> "LPAREN") @@ (")" :> "RPAREN") @@ ("," :> "COMMA")
    @@ (":" :> "COLON") @@ ("|" :> "PIPE")

\* The operator or symbol at p.
read_operator(src, p) ==
    LET c == CharAt(src, p)
        n == CharAt(src, p + 1)
    IN  IF TwoCharacterToken(c, n) # ""
        THEN Lexed(Token(TwoCharacterToken(c, n), <<c, n>>, p - 1), p + 2)
        ELSE Lexed(Token(single_char_tokens[c], <<c>>, p - 1), p + 1)

\* A lexer that leaves the position where it is at an unknown character.
skip_character_stuck(src, p) == p

\* "Unknown character, skip it": self.advance()
skip_character(src, p) == p + 1

\* The branch a round of get_next_token takes on the character at p.
Branch(src, p) ==
    LET c == CharAt(src, p)
        n == CharAt(src, p + 1)
    IN  IF c \in {" ", "\t"} THEN "whitespace"
        ELSE IF c \in {"\n", "\r"} THEN "newline"
        ELSE IF IsDigit(c) THEN "number"
        ELSE IF c = "\"" THEN "string"
        ELSE IF IsAlpha(c) \/ c = "_" THEN "identifier"
        ELSE IF c = "/" /\ n = "/" THEN "comment"
        ELSE IF TwoCharacterToken(c, n) # "" \/ c \in DOMAIN single_char_tokens THEN "operator"
        ELSE "unknown"

\* One round of the while loop of get_next_token, with current_char not None.
Round(src, p) ==
    LET branch == Branch(src, p) IN
    CASE branch = "whitespace" -> Skipped(skip_whitespace(src, p))
      [] branch = "newline" -> Skipped(p + 1)
      [] branch = "number" -> read_number(src, p)
      [] branch = "string" -> read_string(src, p)
      [] branch = "identifier" -> read_identifier(src, p)
      [] branch = "comment" -> read_comment(src, p)
      [] branch = "operator" -> read_operator(src, p)
      [] OTHER -> Skipped(skip_character(src, p))

(***************************************************************************)
(* Lexer.tokenize as a state machine: `source` is the text, `pc` is        *)
(* Lexer.position, `ast` holds the tokens appended so far.  One action is  *)
(* one round of the while loop of get_next_token, by the branch it takes.  *)
(***************************************************************************)
\* Lexer(source), tokens = []
InitLexer(sources) ==
    /\ source \in sources
    /\ ast = << >>
    /\ pc = 0
    /\ stage = "lexing"
    /\ lists = << >>
    /\ envs = << >>
    /\ output_buffer = << >>
    /\ last_result = ElfNil
    /\ raised = ""
    /\ returned = ""
    /\ calls = << >>

\* A round that takes `branch`; a token it returns is appended by tokenize.
LexerRound(branch) ==
    /\ stage = "lexing"
    /\ pc < Len(source)
    /\ Branch(source, pc + 1) = branch
    /\ \E r \in {Round(source, pc + 1)} :
          /\ pc' = r.pos - 1
          /\ ast' = IF r.token.type = "None" THEN ast ELSE Append(ast, r.token)
    /\ UNCHANGED <<source, stage, lists, envs, output_buffer, last_result, raised, returned,
                   calls>>

SkipWhitespace == LexerRound("whitespace")
SkipNewline == LexerRound("newline")
ReadNumber == LexerRound("number")
ReadString == LexerRound("string")
ReadIdentifier == LexerRound("identifier")
ReadComment == LexerRound("comment")
ReadOperator == LexerRound("operator")
SkipUnknown == LexerRound("unknown")

\* current_char is None: get_next_token returns None and tokenize returns
\* the tokens.
TokenizeReturns ==
    /\ stage = "lexing"
    /\ pc >= Len(source)
    /\ stage' = "lexed"
    /\ UNCHANGED <<source, ast, pc, lists, envs, output_buffer, last_result, raised,
                   returned, calls>>

\* parse_primary on the first token, a STR token: the String node's value.
ParseString ==
    /\ stage = "lexed"
    /\ ast # << >>
    /\ ast[1].type = "STR"
    /\ last_result' = ElfString(parse_primary(ast, 1).node.value)
    /\ stage' = "parsed"
    /\ UNCHANGED <<source, ast, pc, lists, envs, output_buffer, raised, returned, calls>>

(***************************************************************************)
(* String literals.                                                        *)
(***************************************************************************)
\* The most characters between the quotes of a literal.
MaxContent == 3
StringCharacters == {"\\", "\"", "n", "t", "a"}
Contents == UNION {[1..n -> StringCharacters] : n \in 0..MaxContent}

InitStrings == InitLexer({<<"\"">> \o content \o <<"\"">> : content \in Contents})
NextStrings == ReadString \/ ReadIdentifier \/ SkipUnknown \/ TokenizeReturns \/ ParseString
SpecStrings == InitStrings /\ [][NextStrings]_vars

\* The character an escape stands for.
Escaped(c) ==
    CASE c = "n" -> "\n"
      [] c = "t" -> "\t"
      [] OTHER -> c

\* The content decoded in one scan from the left: an escape gives its
\* character, which is not looked at again.
RECURSIVE ScannedOnce(_)
ScannedOnce(cs) ==
    IF cs = << >> THEN << >>
    ELSE IF Len(cs) >= 2 /\ cs[1] = "\\" /\ cs[2] \in {"\"", "\\", "n", "t"}
    THEN <<Escaped(cs[2])>> \o ScannedOnce(Tail(Tail(cs)))
    ELSE <<cs[1]>> \o ScannedOnce(Tail(cs))

\* C24: the String a literal denotes is the content of its token, as the
\* lexer delimited it, with each two-character escape replaced by its
\* character in one scan from the left; a character so produced is never
\* part of a later escape.
C24_EscapesDecodedOnce ==
    (stage = "parsed" /\ Len(ast[1].value) >= 2 /\ ast[1].value[Len(ast[1].value)] = "\"") =>
        last_result = ElfString(ScannedOnce(SubSeq(ast[1].value, 2, Len(ast[1].value) - 1)))

(***************************************************************************)
(* Lexer.tokenize on every short source.                                   *)
(***************************************************************************)
\* The most characters of a source.
MaxSource == 3
\* A blank, a newline, a digit, the point, the quote, the backslash, a
\* letter, the slash, an operator of one or two characters, and # which is
\* unknown unless { follows.
SourceCharacters == {" ", "\n", "1", ".", "\"", "\\", "a", "/", "=", "#", "{"}
Sources == UNION {[1..n -> SourceCharacters] : n \in 0..MaxSource}

InitSources == InitLexer(Sources)
NextLexer ==
    \/ SkipWhitespace \/ SkipNewline \/ ReadNumber \/ ReadString \/ ReadIdentifier
    \/ ReadComment \/ ReadOperator \/ SkipUnknown \/ TokenizeReturns
\* tokenize runs to its return: the loop is never suspended.
SpecLexer == InitSources /\ [][NextLexer]_vars /\ WF_vars(NextLexer)

\* The characters of the tokens, in order.
RECURSIVE TokenCharacters(_)
TokenCharacters(tokens) ==
    IF tokens = << >> THEN 0 ELSE Len(Head(tokens).value) + TokenCharacters(Tail(tokens))

\* C25: Lexer.tokenize terminates on every source without raising: every
\* round of get_next_token moves the position forward and never past the
\* end, an unknown character is passed over without a token, the tokens
\* never hold more characters than were passed, and tokenize returns once
\* the position is at the end of the source.
C25_TokenizeTerminates ==
    /\ [][stage = "lexing" =>
            /\ pc' > pc \/ (pc = Len(source) /\ stage' = "lexed")
            /\ pc' <= Len(source)
            /\ TokenCharacters(ast') <= pc'
            /\ (pc < Len(source) /\ Branch(source, pc + 1) = "unknown") =>
                   (ast' = ast /\ pc' = pc + 1)]_vars
    /\ <>(stage = "lexed" /\ pc = Len(source))

\* #"\ has been tokenized: the unknown # gave no token and the unterminated
\* string that ends in a backslash is the only token.
C25_UnterminatedAfterUnknown ==
    /\ stage = "lexed"
    /\ source = <<"#", "\"", "\\">>
    /\ ast = <<Token("STR", <<"\"", "\\">>, 1)>>

(***************************************************************************)
(* Programs that bind a name twice in one scope.                           *)
(***************************************************************************)
\* (|| { let x = 1; let mut x = 2; x = 3; x })()
RebindMutableInBody ==
    Statement(Call(Function(<< >>, <<Let("x", One), MutableLet("x", Two),
                                     Assignment("x", IntLit(3)), Id("x")>>), << >>))
\* (|| { let mut x = 1; let x = 2; x = 3 })()
RebindImmutableInBody ==
    Statement(Call(Function(<< >>, <<MutableLet("x", One), Let("x", Two),
                                     Assignment("x", IntLit(3))>>), << >>))

LibRebind ==
    << Statement(Let("x", One)),
       Statement(MutableLet("x", Two)),
       Statement(Assignment("x", IntLit(3))),
       Statement(Let("g", Function(<< >>, <<Id("x")>>))),
       RebindMutableInBody,
       RebindImmutableInBody,
       Malformed("Unexpected end of input") >>

InitRebind == InitOver(LibRebind)
SpecRebind == InitRebind /\ [][Next]_vars

\* The statement is let / let mut / an assignment of the global x.
ActsOnX(stmt) == stmt.value.type \in {"Let", "MutableLet", "Assignment"} /\ stmt.value.name = "x"

\* The cell of x after the statements, by the rule: the last let or let mut
\* gives the flag, the last of let, let mut and assignment the value.
RECURSIVE CellOfX(_)
CellOfX(statements) ==
    IF statements = << >> THEN [bound |-> FALSE, value |-> 0, mutable |-> FALSE]
    ELSE LET stmt == statements[Len(statements)]
             before == CellOfX(SubSeq(statements, 1, Len(statements) - 1))
         IN  IF ~ActsOnX(stmt) THEN before
             ELSE [bound |-> TRUE, value |-> stmt.value.value.value,
                   mutable |-> IF stmt.value.type = "Assignment" THEN before.mutable
                               ELSE stmt.value.type = "MutableLet"]

\* What the statement at hand raises by the rule, "" if nothing.
RaisedByRule(stmt, cell) ==
    IF stmt = RebindImmutableInBody THEN NotMutable("x")
    ELSE IF stmt.value.type = "Assignment" /\ ~cell.bound THEN "Identifier can not be found: x"
    ELSE IF stmt.value.type = "Assignment" /\ ~cell.mutable THEN NotMutable("x")
    ELSE ""

\* C26: a second let or let mut of a name bound in the same scope makes no
\* new cell: it overwrites the value and the mutability flag of the one
\* cell, so a closure over the scope reads the new value, an assignment
\* after let x; let mut x succeeds and one after let mut x; let x raises
\* Variable 'x' is not mutable.
C26_RebindingOverwritesTheCell ==
    stage = "eval" =>
        LET cell == CellOfX(Evaluated) IN
        /\ cell.bound = ("x" \in GlobalNames)
        /\ cell.bound =>
              /\ GlobalValue("x") = ElfInteger(cell.value)
              /\ envs[GlobalEnvId].mutable["x"] = cell.mutable
              /\ "g" \in GlobalNames => ReadNow(Call(Id("g"), << >>)) = ElfInteger(cell.value)
        /\ pc <= Len(ast) =>
              /\ StepResult.err = RaisedByRule(ast[pc], cell)
              /\ ast[pc] = RebindMutableInBody => StepResult.val = ElfInteger(3)

\* let mut x = 2; let x = 1 have run and x = 3 is at hand: it raises.
C26_AssignmentAfterImmutableRebind ==
    /\ stage = "eval" /\ pc = 3
    /\ ast = <<Statement(MutableLet("x", Two)), Statement(Let("x", One)),
               Statement(Assignment("x", IntLit(3)))>>
    /\ StepResult.err = NotMutable("x")
    /\ GlobalValue("x") = ElfInteger(1)

(***************************************************************************)
(* Programs that compare two values both ways round.                       *)
(***************************************************************************)
\* Values of every comparable kind, with Sets and Dictionaries written with
\* a repeated element or key.
Compared ==
    << One, StrLit(<<"1">>), NilLit, ListLit(<<One, Two>>),
       SetLit(<<One, Two>>), SetLit(<<Two, One>>), SetLit(<<One, One>>),
       DictLit(<<Pair(One, Two), Pair(Two, One)>>), DictLit(<<Pair(One, Two), Pair(One, Two)>>),
       ListLit(<<SetLit(<<One, One>>)>>), ListLit(<<SetLit(<<One, Two>>)>>) >>

\* let a = ..; let b = ..; a == b
InitSymmetry ==
    \/ \E i, j \in 1..Len(Compared) :
           InitWith({<<Statement(Let("a", Compared[i])), Statement(Let("b", Compared[j])),
                       AEqualsB>>})
    \/ InitWith({<<AEqualsB>>})
    \/ InitWith({<<Malformed("Unexpected end of input")>>})
SpecSymmetry == InitSymmetry /\ [][Next]_vars

\* C27: equality is symmetric: whatever values a and b hold, also Sets and
\* Dictionaries written with repeated elements or keys, a == b and b == a
\* evaluate to the same Boolean.
C27_EqualityIsSymmetric ==
    (stage = "eval" /\ {"a", "b"} \subseteq GlobalNames) =>
        ReadNow(Infix("==", Id("a"), Id("b"))) = ReadNow(Infix("==", Id("b"), Id("a")))

(***************************************************************************)
(* Programs over && and ||.                                                *)
(***************************************************************************)
\* (|| { x = n })(): an operand that assigns n to the global x and yields n
Assigning(n) == Call(Function(<< >>, <<Assignment("x", IntLit(n))>>), << >>)

\* Operands that print, assign, raise, and are true or false in every kind.
LogicOperands ==
    << Puts(One), Puts(Two), Assigning(5), Assigning(0), Id("y"), IntLit(0), One,
       BoolLit(TRUE), BoolLit(FALSE), StrLit(<< >>), NilLit >>

\* let mut x = 1; left && right     and     let mut x = 1; left || right
InitLogic ==
    \/ \E i, j \in 1..Len(LogicOperands) : \E op \in {"&&", "||"} :
           InitWith({<<LetMutX, Statement(Infix(op, LogicOperands[i], LogicOperands[j]))>>})
    \/ InitWith({<<LetMutX, Malformed("Unexpected end of input")>>})
SpecLogic == InitLogic /\ [][Next]_vars

\* What an operand does by itself: the line it writes, the value it leaves
\* in x when x held n, whether it raises, and its truthiness.
OperandWrites(e) == IF IsPuts(e) THEN PutsLine(e.arguments[1].value) ELSE ""
OperandLeaves(e, n) == IF IsBump(e) THEN e.function.body.statements[1].value.value.value ELSE n
OperandRaises(e) == e.type = "Identifier"
OperandTruthy(e) ==
    IF IsPuts(e) THEN FALSE
    ELSE IF IsBump(e) THEN OperandLeaves(e, 0) # 0
    ELSE TruthyLiteral(e)

\* The logical statement of the program has been evaluated or has raised.
LogicIsOver ==
    /\ Len(ast) = 2
    /\ \/ stage = "eval" /\ pc = 3
       \/ stage = "returned" /\ raised # "" /\ pc = 2

\* C28: && and || never short-circuit: the left operand and then the right
\* one are always evaluated, so the right operand's output, assignment and
\* error always occur, and the result is the Boolean conjunction or
\* disjunction of the operands' truthiness, never an operand.
C28_LogicalOperatorsEvaluateBoth ==
    LogicIsOver =>
        LET left == ast[2].value.left
            right == ast[2].value.right
            fails == OperandRaises(left) \/ OperandRaises(right)
            written == OperandWrites(left)
                       \o (IF OperandRaises(left) THEN "" ELSE OperandWrites(right))
        IN  /\ raised = (IF fails THEN NotFound("y") ELSE "")
            /\ JoinText(output_buffer) =
                   written \o (IF fails THEN "[Error] " \o NotFound("y") ELSE "")
            /\ GlobalValue("x") =
                   ElfInteger(IF OperandRaises(left) THEN 1
                              ELSE OperandLeaves(right, OperandLeaves(left, 1)))
            /\ ~fails =>
                   last_result =
                       ElfBoolean(IF ast[2].value.operator = "&&"
                                  THEN OperandTruthy(left) /\ OperandTruthy(right)
                                  ELSE OperandTruthy(left) \/ OperandTruthy(right))

\* let mut x = 1; true || (|| { x = 5 })() has returned true with x = 5.
C28_RightOperandRanAfterTrue ==
    /\ stage = "eval" /\ pc = 3
    /\ Len(ast) = 2
    /\ ast[2].value.operator = "||"
    /\ ast[2].value.left.type = "Boolean" /\ ast[2].value.left.value
    /\ IsBump(ast[2].value.right)
    /\ last_result = ElfBoolean(TRUE)
    /\ GlobalValue("x") = ElfInteger(5)

(***************************************************************************)
(* Parser.parse as a loop: one action per round of `while current_token    *)
(* is not None` (parser.py:50-53), over the tokens of a source.  `source`  *)
(* holds Parser.tokens, `pc` Parser.position + 1, `ast` the statements     *)
(* gathered so far.  The parse functions call one another recursively, so  *)
(* a round runs under the recursion limit of the Python interpreter.       *)
(***************************************************************************)
\* sys.getrecursionlimit() of CPython: the frames a thread may hold.  A call
\* that would exceed it raises RecursionError.
RecursionLimit == 1000

\* str(RecursionError) as evaluate_program returns it
RecursionErrorMessage == "maximum recursion depth exceeded"

\* The frames on the stack while Parser.parse runs, when a script calls
\* evaluate_program: <module>, evaluate_program, Parser.parse.
FramesAtParse == 3

RECURSIVE frames_expression(_, _)
RECURSIVE frames_unary(_, _)
RECURSIVE frames_primary(_, _)
RECURSIVE frames_statement(_, _)

\* The frames of expect(expected_type), itself included: advance() when the
\* token is there, the formatting of the message when it is not.
frames_expect(ts, pos, expected_type) ==
    IF current_token(ts, pos).type = expected_type THEN 2 ELSE 3

\* The frames of parse_block() at an LBRACE, itself included, down its
\* first statement: skip_comments, then parse_statement unless the block ends.
frames_block(ts, pos) ==
    1 + (IF current_token(ts, skip_comments(ts, pos + 1)).type \in {"None", "RBRACE"}
         THEN frames_expect(ts, skip_comments(ts, pos + 1), "RBRACE")
         ELSE frames_statement(ts, skip_comments(ts, pos + 1)))

\* The frames of a function body: parse_block, or parse_expression.
frames_body(ts, pos) ==
    IF current_token(ts, pos).type = "LBRACE" THEN frames_block(ts, pos)
    ELSE frames_expression(ts, pos)

\* The frames below parse_let() at a LET: advance() or expect() on a
\* malformed header, else parse_expression on the value.
frames_let_value(ts, pos) ==
    LET at == IF current_token(ts, pos + 1).type = "MUT" THEN pos + 2 ELSE pos + 1
    IN  IF current_token(ts, at).type # "ID" THEN 2
        ELSE IF current_token(ts, at + 1).type # "ASSIGN"
        THEN frames_expect(ts, at + 1, "ASSIGN")
        ELSE frames_expression(ts, at + 2)

\* The number of tokens of `type` in a row from `pos` on.
LeadingRun(ts, pos, type) ==
    CHOOSE k \in 0..(Len(ts) + 1) :
        /\ \A i \in 0..(k - 1) : current_token(ts, pos + i).type = type
        /\ current_token(ts, pos + k).type # type

\* The frames below parse_primary() at `pos`, itself included, down the
\* constructs the tokens open one inside the other from `pos` on: the
\* deepest point of a parse whose nesting is at its start.  A literal is
\* consumed by advance(); a construct calls parse_expression on what
\* follows its opening token; expect() calls advance().  An LPAREN calls
\* parse_expression, whose chain down to the parse_primary of the next
\* token holds 12 frames: a run of LPARENs is counted at once.
frames_primary(ts, pos) ==
    LET type == current_token(ts, pos).type
        next == current_token(ts, pos + 1).type
        parameters == parameters_loop(ts, pos + 1, << >>)
    IN  1 + (CASE type = "None" -> 0
               [] type = "LPAREN" ->
                     12 * (LeadingRun(ts, pos, "LPAREN") - 1)
                         + frames_expression(ts, pos + LeadingRun(ts, pos, "LPAREN"))
               [] type = "LBRACKET" ->
                     1 + (IF next \in {"None", "RBRACKET"}
                          THEN frames_expect(ts, pos + 1, "RBRACKET")
                          ELSE frames_expression(ts, pos + 1))
               [] type \in {"LBRACE", "DICT_START"} ->
                     1 + (IF next \in {"None", "RBRACE"}
                          THEN frames_expect(ts, pos + 1, "RBRACE")
                          ELSE frames_expression(ts, pos + 1))
               [] type = "OR" -> 1 + frames_body(ts, pos + 1)
               [] type = "PIPE" ->
                     1 + (IF current_token(ts, parameters.pos).type # "PIPE"
                          THEN frames_expect(ts, parameters.pos, "PIPE")
                          ELSE frames_body(ts, parameters.pos + 1))
               [] type = "IF" -> 1 + frames_expression(ts, pos + 1)
               [] type = "LET" -> 1 + frames_let_value(ts, pos)
               [] OTHER -> 1)

\* parse_unary() calls itself after a MINUS, and parse_postfix() otherwise.
frames_unary(ts, pos) ==
    1 + (IF current_token(ts, pos).type = "MINUS" THEN frames_unary(ts, pos + 1)
         ELSE 1 + frames_primary(ts, pos))

\* parse_expression() reaches parse_unary() through parse_threading,
\* parse_composition, parse_logical_or, parse_logical_and, parse_equality,
\* parse_comparison, parse_addition and parse_multiplication.
frames_expression(ts, pos) == 9 + frames_unary(ts, pos)

\* parse_statement(): advance() on a comment, else parse_expression().
frames_statement(ts, pos) ==
    1 + (IF current_token(ts, pos).type = "CMT" THEN 1
         ELSE frames_expression(ts, IF IsAssignment(ts, pos) THEN pos + 2 ELSE pos))

\* The round at `pos` would hold more frames than the limit allows.
Overflows(ts, pos) == FramesAtParse + frames_statement(ts, pos) > RecursionLimit

\* A round of the loop of Parser.parse: one statement is appended.
ParseLoopStatement ==
    /\ stage = "parsing"
    /\ pc <= Len(source)
    /\ ~Overflows(source, pc)
    /\ \E r \in {parse_statement(source, pc)} :
          /\ r.err = ""
          /\ ast' = Append(ast, r.node)
          /\ pc' = r.pos
    /\ UNCHANGED <<source, stage, lists, envs, output_buffer, last_result, raised, returned,
                   calls>>

\* A round in which parse_primary, parse_let or expect raises SyntaxError.
ParseLoopRaises ==
    /\ stage = "parsing"
    /\ pc <= Len(source)
    /\ ~Overflows(source, pc)
    /\ \E r \in {parse_statement(source, pc)} :
          /\ r.err # ""
          /\ raised' = r.err
    /\ stage' = "returned"
    /\ UNCHANGED <<source, ast, pc, lists, envs, output_buffer, last_result, returned, calls>>

\* A round in which a call of a parse function raises RecursionError.
ParseLoopOverflows ==
    /\ stage = "parsing"
    /\ pc <= Len(source)
    /\ Overflows(source, pc)
    /\ raised' = RecursionErrorMessage
    /\ stage' = "returned"
    /\ UNCHANGED <<source, ast, pc, lists, envs, output_buffer, last_result, returned, calls>>

\* current_token is None: Parser.parse returns the Program.
ParseLoopReturns ==
    /\ stage = "parsing"
    /\ pc > Len(source)
    /\ stage' = "parsed"
    /\ UNCHANGED <<source, ast, pc, lists, envs, output_buffer, last_result, raised,
                   returned, calls>>

(***************************************************************************)
(* Token sequences for the parser: every sequence of up to MaxWords        *)
(* stretches that open, continue or close a construct, and a source of     *)
(* nested parentheses.                                                     *)
(***************************************************************************)
MaxWords == 3
MaxNesting == 82

LBraceWord == Word("LBRACE", <<"{">>)
PipeWord == Word("PIPE", <<"|">>)
OrWord == Word("OR", <<"|", "|">>)
DictStartWord == Word("DICT_START", <<"#", "{">>)
ColonWord == Word("COLON", <<":">>)
CommentWord == Word("CMT", <<"/", "/">>)
NameA == Name(<<"a">>)

Stretches ==
    { <<NameA>>, <<CommaWord>>, <<CommentWord>>, <<Semicolon>>, <<MinusWord>>,
      <<LParen>>, <<RParen>>, <<RBracket>>, <<RBrace>>,
      <<LBracket, NameA, CommaWord>>,
      <<LBraceWord, IntWord(1), CommaWord>>,
      <<DictStartWord, NameA, ColonWord, IntWord(1), CommaWord>>,
      <<OrWord, LBraceWord, NameA, Semicolon>>,
      <<PipeWord, NameA, CommaWord, NameA, PipeWord>>,
      <<NameA, LParen, NameA, CommaWord>>,
      <<NameA, AssignWord>> }

\* The tokens of ((( ... 1 ... ))) with n pairs of parentheses
Nested(n) ==
    [i \in 1..(2 * n + 1) |->
        IF i <= n THEN Token("LPAREN", <<"(">>, i - 1)
        ELSE IF i = n + 1 THEN Token("INT", <<"1">>, i - 1)
        ELSE Token("RPAREN", <<")">>, i - 1)]

ParserSources ==
    {Spaced(Flatten(ws), 0) : ws \in UNION {[1..n -> Stretches] : n \in 0..MaxWords}}
    \cup {Nested(MaxNesting)}

InitParser ==
    /\ source \in ParserSources
    /\ ast = << >>
    /\ pc = 1
    /\ stage = "parsing"
    /\ lists = << >>
    /\ envs = << >>
    /\ output_buffer = << >>
    /\ last_result = ElfNil
    /\ raised = ""
    /\ returned = ""
    /\ calls = << >>
NextParser == ParseLoopStatement \/ ParseLoopRaises \/ ParseLoopOverflows \/ ParseLoopReturns
SpecParser == InitParser /\ [][NextParser]_vars

\* A parse function called at any token of the source consumes at least one
\* token, and none past the end, or raises SyntaxError.
CallsConsume(ts) ==
    \A p \in 1..Len(ts) :
        /\ \E r \in {parse_statement(ts, p)} : r.err # "" \/ (r.pos > p /\ r.pos <= Len(ts) + 1)
        /\ \E r \in {parse_expression(ts, p)} : r.err # "" \/ (r.pos > p /\ r.pos <= Len(ts) + 1)

\* A round of the loop consumes at least one token, or ends the parse with
\* the Program or with an exception.
RoundConsumes ==
    \/ stage' = "parsing" /\ pc' > pc /\ pc' <= Len(source) + 1
    \/ stage' = "parsed" /\ pc > Len(source)
    \/ stage' = "returned" /\ raised' # ""

\* C29: Parser.parse terminates on every finite token sequence: every call
\* of parse_statement, from the loop of parse or from a loop inside a
\* construct, consumes at least one token or raises SyntaxError, so every
\* round of a loop moves forward or ends it, and the parse ends with a
\* Program or a SyntaxError.
C29_ParserTerminates ==
    [][stage = "parsing" =>
          /\ RoundConsumes
          /\ raised' # RecursionErrorMessage
          /\ ~Overflows(source, pc) => CallsConsume(SubSeq(source, pc, Len(source)))]_vars

\* The same, with RecursionError allowed as an end of the parse.
C29_ParserMakesProgress ==
    [][stage = "parsing" =>
          /\ RoundConsumes
          /\ ~Overflows(source, pc) => CallsConsume(SubSeq(source, pc, Len(source)))]_vars

\* The parse of MaxNesting pairs of parentheses has ended in RecursionError.
C29_NestingOverflowed ==
    /\ stage = "returned"
    /\ raised = RecursionErrorMessage
    /\ Len(source) = 2 * MaxNesting + 1

(***************************************************************************)
(* Programs that assign inside a function body.                            *)
(***************************************************************************)
LetMutA == Statement(MutableLet("a", One))

\* |a, b| { target = v; x }
AssigningBody(target, v) == Function(<<"a", "b">>, <<Assignment(target, IntLit(v)), Id("x")>>)

\* let f = (|| { let mut x = 10; |a, b| { .. } })() and, without a binding
\* of x in the enclosing body, let f = (|| { |a, b| { .. } })()
LetFUnderX(target, v) ==
    Statement(Let("f", Call(Function(<< >>, <<MutableLet("x", IntLit(10)),
                                               AssigningBody(target, v)>>), << >>)))
LetFPlain(target, v) ==
    Statement(Let("f", Call(Function(<< >>, <<AssigningBody(target, v)>>), << >>)))

\* f(1, 2) and f(1)(2)
CallAtOnce == Statement(Call(Id("f"), <<One, Two>>))
CallInTwo == Statement(Call(Call(Id("f"), <<One>>), <<Two>>))

AssignedNames == {"x", "a", "b", "y"}
AssignedValues == {5, 7}

\* let mut x = 1; let mut a = 1; let f = ..; f(1, 2)   or   ..; f(1)(2)
InitAssign ==
    \/ \E target \in AssignedNames : \E v \in AssignedValues :
       \E holder \in {LetFUnderX(target, v), LetFPlain(target, v)} :
       \E call \in {CallAtOnce, CallInTwo} :
           InitWith({<<LetMutX, LetMutA, holder, call>>})
    \/ InitWith({<<LetMutX, Malformed("Unexpected end of input")>>})
SpecAssign == InitAssign /\ [][Next]_vars

\* The call of f, the fourth statement, has been evaluated or has raised.
AssigningCallIsOver ==
    /\ Len(ast) = 4
    /\ \/ stage = "eval" /\ pc = 5
       \/ stage = "returned" /\ raised # "" /\ pc = 4

\* C30: an assignment acts on the nearest enclosing binding of the name and
\* on no other: x = v in the body of f changes the x of the enclosing body
\* when there is one and the global x otherwise; an assignment to the
\* parameter a or b raises Variable '<name>' is not mutable and the global
\* `let mut a` keeps its value; an assignment to y, bound nowhere, raises
\* Identifier can not be found: y and binds y in no environment.
C30_AssignmentActsOnNearestBinding ==
    AssigningCallIsOver =>
        LET body == ast[3].value.value.function.body.statements
            under == Len(body) = 2
            assignment == body[Len(body)].value.body.statements[1].value
            target == assignment.name
        IN  /\ raised = (CASE target \in {"a", "b"} -> NotMutable(target)
                           [] target = "y" -> NotFound("y")
                           [] OTHER -> "")
            /\ GlobalValue("a") = ElfInteger(1)
            /\ GlobalValue("x") =
                   ElfInteger(IF target = "x" /\ ~under THEN assignment.value.value ELSE 1)
            /\ \A id \in DOMAIN envs : "y" \notin DOMAIN envs[id].variables
            /\ (target = "x" /\ stage = "eval") =>
                   last_result = ElfInteger(assignment.value.value)

====
